---- MODULE Spec2Model ----
(***************************************************************************)
(* Model of the iptables bootup / reconcile engine of the NPM policy       *)
(* manager (package policies, chain-management-linux): version detection,  *)
(* cleanup of the other iptables backend, the bootstrap restore payload,   *)
(* the jump positioner, the stale-chain set and the reconcileManager's     *)
(* forced-lock handshake.                                                  *)
(*                                                                         *)
(* The kernel tables of the two backends are state shared by three         *)
(* goroutines: one caller of bootup, the reconcile loop, and one forced    *)
(* caller that marks a policy chain stale.  Every iptables command is one  *)
(* atomic step that reads the global util.Iptables when it is issued.           *)
(***************************************************************************)
EXTENDS Integers, Sequences, FiniteSets, TLC

(***************************************************************************)
(* Bounds of the model.                                                    *)
(***************************************************************************)
MaxForward == 2        \* rules in a FORWARD chain of the initial state
MaxPolicyChains == 2   \* policy (non-base) chain names
MaxBootups == 2        \* bootup calls
MaxTicks == 1          \* reconcile ticks
MaxAdds == 1           \* forced callers marking a chain stale
MaxFaults == 1         \* commands that fail for a reason of the environment
MaxOutput == 2         \* pieces of text in the output of a command run on its own
MaxCleanupFaults == 2  \* commands that fail while bootup's cleanup and fallbacks are examined
MaxIPRules == 2        \* ip rules of the host before node setup runs
MaxRuns == 2           \* calls of node setup's Run

(***************************************************************************)
(* Program constants.                                                      *)
(***************************************************************************)
doesNotExistErrorCode == 1
couldntLoadTargetErrorCode == 2

\* an exit code the code gives no meaning to (such as a lock wait that timed out)
UnexpectedExitCodes == {4}

Backend == {"nft", "legacy"}
IptablesNft == "nft"
IptablesLegacy == "legacy"

OtherBackend(b) == IF b = IptablesNft THEN IptablesLegacy ELSE IptablesNft

IptablesAzureChain == "AZURE-NPM"
IptablesAzureIngressChain == "AZURE-NPM-INGRESS"
IptablesAzureIngressAllowMarkChain == "AZURE-NPM-INGRESS-ALLOW-MARK"
IptablesAzureEgressChain == "AZURE-NPM-EGRESS"
IptablesAzureAcceptChain == "AZURE-NPM-ACCEPT"
IptablesKubeServicesChain == "KUBE-SERVICES"

iptablesAzureChains ==
    << IptablesAzureChain, IptablesAzureIngressChain,
       IptablesAzureIngressAllowMarkChain, IptablesAzureEgressChain,
       IptablesAzureAcceptChain >>

Range(s) == { s[i] : i \in DOMAIN s }

BaseChains == Range(iptablesAzureChains)

AllPolicyChains ==
    << "AZURE-NPM-INGRESS-1", "AZURE-NPM-EGRESS-2", "AZURE-NPM-INGRESS-3",
       "AZURE-NPM-EGRESS-4" >>

PolicyChains == { AllPolicyChains[i] : i \in 1..MaxPolicyChains }

ChainNames == BaseChains \cup PolicyChains

PlaceFirst == "PlaceAzureChainFirst"
PlaceAfterKubeServices == "PlaceAzureChainAfterKubeServices"

(***************************************************************************)
(* Rules of the FORWARD chain.  A listing line shows the rule's target,    *)
(* which is what grep matches.                                             *)
(***************************************************************************)
jumpFromForwardToAzureChain == [target |-> IptablesAzureChain, ctstate |-> "NEW"]
deprecatedJumpFromForwardToAzureChain == [target |-> IptablesAzureChain, ctstate |-> ""]
jumpToKubeServices == [target |-> IptablesKubeServicesChain, ctstate |-> ""]
jumpToKubeForward == [target |-> "KUBE-FORWARD", ctstate |-> ""]

ForwardRules ==
    { jumpFromForwardToAzureChain, deprecatedJumpFromForwardToAzureChain,
      jumpToKubeServices, jumpToKubeForward }

SeqsUpTo(S, n) == UNION { [1..m -> S] : m \in 0..n }

(***************************************************************************)
(* Sequences and sets.                                                     *)
(***************************************************************************)
RECURSIVE Perms(_)
Perms(S) ==
    IF S = {} THEN { << >> }
    ELSE UNION { { << x >> \o rest : rest \in Perms(S \ {x}) } : x \in S }

RemoveAt(s, i) == [ j \in 1..(Len(s) - 1) |-> IF j < i THEN s[j] ELSE s[j + 1] ]

InsertAt(s, i, e) ==
    [ j \in 1..(Len(s) + 1) |-> IF j < i THEN s[j] ELSE IF j = i THEN e ELSE s[j - 1] ]

FirstIndex(s, e) ==
    IF \E i \in DOMAIN s : s[i] = e
    THEN CHOOSE i \in DOMAIN s : s[i] = e /\ \A j \in 1..(i - 1) : s[j] # e
    ELSE 0


(***************************************************************************)
(* The stale-chain set.                                                    *)
(***************************************************************************)
isBaseChainRootOnly(chain) == chain = IptablesAzureChain

isBaseChain(chain) == chain \in BaseChains

addUnchecked(s, chain) == s \cup {chain}

add(s, chain) == IF ~isBaseChain(chain) THEN s \cup {chain} ELSE s

remove(s, chain) == s \ {chain}

addEach(s, chainSet) == UNION ({s} \cup { add(s, c) : c \in chainSet })

emptyAndGetAllSkipsOne(s) == { IF l = << >> THEN l ELSE Tail(l) : l \in Perms(s) }

\* the lists emptyAndGetAll may return: the set in any order of the map's iteration
emptyAndGetAll(s) == Perms(s)

\* the set once emptyAndGetAll has removed each chain of its result
RECURSIVE removeAll(_, _)
removeAll(s, result) ==
    IF result = << >> THEN s ELSE removeAll(remove(s, Head(result)), Tail(result))

emptyKeeps(s) == s

empty(s) == {}

(***************************************************************************)
(* chainLineNumber: the line number of the first line of the FORWARD       *)
(* listing that grep matches for the chain; 0 when no line matches.        *)
(***************************************************************************)
chainLineNumber(listing, chain) ==
    IF \E i \in DOMAIN listing : listing[i].target = chain
    THEN CHOOSE i \in DOMAIN listing :
            /\ listing[i].target = chain
            /\ \A j \in 1..(i - 1) : listing[j].target # chain
    ELSE 0

(***************************************************************************)
(* The iptables commands.  A command is run against the FORWARD chain      *)
(* (fwd) and the chains (tbl: chain name -> its rules) of one backend and  *)
(* yields its exit, its output and what it leaves behind.  fault is how    *)
(* the environment makes the command fail: "none", "exit" (an unexpected   *)
(* exit code), "failure" (the operation fails in the kernel: iptables      *)
(* exits with 1, as it does for every failed operation but a resource      *)
(* problem) or "nostart" (the command could not be run: an error that      *)
(* carries no exit status).  The output of a command is a sequence of      *)
(* pieces of text: iptables prints its name, a message and a full stop.    *)
(***************************************************************************)
OutputOf(message) == << "iptables: ", message, "." >>

Outcome(isExit, code, stderr, fwd, tbl) ==
    [exitError |-> isExit, code |-> code, stderr |-> stderr, fwd |-> fwd, tbl |-> tbl]

FaultOutcome(fault, fwd, tbl) ==
    IF fault = "nostart"
    THEN Outcome(FALSE, 0, << "cannot start" >>, fwd, tbl)
    ELSE IF fault = "failure"
    THEN Outcome(TRUE, 1, OutputOf("Memory allocation problem"), fwd, tbl)
    ELSE Outcome(TRUE, CHOOSE c \in UnexpectedExitCodes : TRUE, OutputOf("resource problem"),
                 fwd, tbl)

NoRuleStderr(b) ==
    IF b = IptablesNft
    THEN OutputOf("Bad rule (does a matching rule exist in that chain?)")
    ELSE OutputOf("No chain/target/match by that name")

NoTargetStderr(b) ==
    IF b = IptablesNft
    THEN OutputOf("Chain 'AZURE-NPM' does not exist")
    ELSE OutputOf("Couldn't load target `AZURE-NPM':No such file or directory")

\* iptables -D FORWARD <rule>: deletes the first rule equal to the given one
DeleteRuleCommand(b, fault, fwd, tbl, rule) ==
    IF fault # "none" THEN FaultOutcome(fault, fwd, tbl)
    ELSE IF rule.target \notin DOMAIN tbl
    THEN Outcome(TRUE, couldntLoadTargetErrorCode, NoTargetStderr(b), fwd, tbl)
    ELSE IF FirstIndex(fwd, rule) = 0
    THEN Outcome(TRUE, doesNotExistErrorCode, NoRuleStderr(b), fwd, tbl)
    ELSE Outcome(FALSE, 0, << >>, RemoveAt(fwd, FirstIndex(fwd, rule)), tbl)

\* iptables -I FORWARD [index] <rule>
InsertRuleCommand(b, fault, fwd, tbl, index, rule) ==
    IF fault # "none" THEN FaultOutcome(fault, fwd, tbl)
    ELSE IF rule.target \notin DOMAIN tbl
    THEN Outcome(TRUE, couldntLoadTargetErrorCode, NoTargetStderr(b), fwd, tbl)
    ELSE IF index > Len(fwd) + 1
    THEN Outcome(TRUE, doesNotExistErrorCode, OutputOf("Index of insertion too big"), fwd, tbl)
    ELSE Outcome(FALSE, 0, << >>, InsertAt(fwd, index, rule), tbl)

\* iptables -F <chain>
FlushChainCommand(b, fault, fwd, tbl, chain) ==
    IF fault # "none" THEN FaultOutcome(fault, fwd, tbl)
    ELSE IF chain \notin DOMAIN tbl
    THEN Outcome(TRUE, doesNotExistErrorCode,
                 OutputOf("No chain/target/match by that name"), fwd, tbl)
    ELSE Outcome(FALSE, 0, << >>, fwd, [tbl EXCEPT ![chain] = << >>])

\* iptables -X <chain>
DestroyChainCommand(b, fault, fwd, tbl, chain) ==
    IF fault # "none" THEN FaultOutcome(fault, fwd, tbl)
    ELSE IF chain \notin DOMAIN tbl
    THEN Outcome(TRUE, doesNotExistErrorCode,
                 OutputOf("No chain/target/match by that name"), fwd, tbl)
    ELSE Outcome(FALSE, 0, << >>, fwd, [c \in DOMAIN tbl \ {chain} |-> tbl[c]])

\* iptables -L <marker chain> -t mangle -n
ListMarkerCommandFound(fault, present) == Outcome(FALSE, 0, << >>, << >>, << >>)

ListMarkerCommand(fault, present) ==
    IF fault # "none" THEN FaultOutcome(fault, << >>, << >>)
    ELSE IF present THEN Outcome(FALSE, 0, << >>, << >>, << >>)
    ELSE Outcome(TRUE, doesNotExistErrorCode,
                 OutputOf("No chain/target/match by that name"), << >>, << >>)

(***************************************************************************)
(* ignoreErrorsAndRunIPTablesCommand: the (exit code, error) it returns    *)
(* for a command's outcome; err is TRUE for a non-nil error.               *)
(***************************************************************************)
removeDeprecatedJumpIgnoredErrors ==
    { [exitCode |-> doesNotExistErrorCode, stdErr |-> "No chain/target/match by that name"],
      [exitCode |-> couldntLoadTargetErrorCode,
       stdErr |-> "Couldn't load target `AZURE-NPM':No such file or directory"],
      [exitCode |-> couldntLoadTargetErrorCode, stdErr |-> "Chain 'AZURE-NPM' does not exist"],
      [exitCode |-> doesNotExistErrorCode,
       stdErr |-> "Bad rule (does a matching rule exist in that chain?)"] }

\* strings.Contains(outputString, substr), for an output made of pieces of text
Contains(outputString, substr) == \E i \in DOMAIN outputString : outputString[i] = substr

ignoreErrorsAndRunIPTablesCommandByCode(ignored, outcome) ==
    IF outcome.exitError
    THEN IF \E info \in ignored : outcome.code = info.exitCode
         THEN [code |-> outcome.code, err |-> FALSE, metric |-> FALSE]
         ELSE [code |-> outcome.code, err |-> TRUE, metric |-> outcome.code > 0]
    ELSE [code |-> 0, err |-> FALSE, metric |-> FALSE]

ignoreErrorsAndRunIPTablesCommandAnyError(ignored, outcome) ==
    IF outcome.exitError
    THEN IF \E info \in ignored :
               outcome.code = info.exitCode /\ Contains(outcome.stderr, info.stdErr)
         THEN [code |-> outcome.code, err |-> FALSE, metric |-> FALSE]
         ELSE [code |-> outcome.code, err |-> TRUE, metric |-> outcome.code > 0]
    ELSE IF outcome.stderr = << "cannot start" >>
    THEN [code |-> 0, err |-> TRUE, metric |-> FALSE]
    ELSE [code |-> 0, err |-> FALSE, metric |-> FALSE]

\* (metric is whether the error metric is sent)
ignoreErrorsAndRunIPTablesCommand(ignored, outcome) ==
    IF outcome.exitError
    THEN IF \E info \in ignored :
               outcome.code = info.exitCode /\ Contains(outcome.stderr, info.stdErr)
         THEN [code |-> outcome.code, err |-> FALSE, metric |-> FALSE]
         ELSE [code |-> outcome.code, err |-> TRUE, metric |-> outcome.code > 0]
    ELSE [code |-> 0, err |-> FALSE, metric |-> FALSE]

runIPTablesCommandNoError(outcome) ==
    [code |-> outcome.code, err |-> FALSE, metric |-> FALSE]

runIPTablesCommand(outcome) == ignoreErrorsAndRunIPTablesCommand({}, outcome)

(***************************************************************************)
(* Restore payloads: a sequence of lines applied as one transaction by     *)
(* iptables-restore --noflush.                                             *)
(***************************************************************************)
ChainLine(chain) == [op |-> "chain", chain |-> chain, rule |-> ""]
FlushLine(chain) == [op |-> "flush", chain |-> chain, rule |-> ""]
AppendLine(chain, rule) == [op |-> "append", chain |-> chain, rule |-> rule]
CommitLine == [op |-> "commit", chain |-> "", rule |-> ""]

\* one order of the elements of a set (a map's iteration order)
RECURSIVE SetToSeq(_)
SetToSeq(S) ==
    IF S = {} THEN << >>
    ELSE LET x == CHOOSE y \in S : TRUE IN << x >> \o SetToSeq(S \ {x})

SelectMissing(chainSeq, present) == SelectSeq(chainSeq, LAMBDA c : c \notin present)

\* the creator's header lines: one ":CHAIN - -" line for each chain to create
newCreatorWithChains(chainsToCreate) ==
    [ i \in 1..Len(chainsToCreate) |-> ChainLine(chainsToCreate[i]) ]

ingressDropSpecs == "-j DROP -m mark --mark INGRESS-DROP-MARK"
markIngressAllowSpecs == "-j MARK --set-mark INGRESS-ALLOW-MARK"
jumpToEgressSpecs == "-j AZURE-NPM-EGRESS"
egressDropSpecs == "-j DROP -m mark --mark EGRESS-DROP-MARK"
jumpOnIngressMatchSpecs == "-j AZURE-NPM-ACCEPT -m mark --mark INGRESS-ALLOW-MARK"
acceptSpecs == "-j ACCEPT"

FlushLines(chainSeq) == [ i \in 1..Len(chainSeq) |-> FlushLine(chainSeq[i]) ]

BootupRuleLinesWithAzureRule ==
    << AppendLine(IptablesAzureChain, "-j AZURE-NPM-INGRESS"),
       AppendLine(IptablesAzureIngressChain, ingressDropSpecs),
       AppendLine(IptablesAzureIngressAllowMarkChain, markIngressAllowSpecs),
       AppendLine(IptablesAzureIngressAllowMarkChain, jumpToEgressSpecs),
       AppendLine(IptablesAzureEgressChain, egressDropSpecs),
       AppendLine(IptablesAzureEgressChain, jumpOnIngressMatchSpecs),
       AppendLine(IptablesAzureAcceptChain, acceptSpecs),
       CommitLine >>

BootupRuleLines ==
    << AppendLine(IptablesAzureIngressChain, ingressDropSpecs),
       AppendLine(IptablesAzureIngressAllowMarkChain, markIngressAllowSpecs),
       AppendLine(IptablesAzureIngressAllowMarkChain, jumpToEgressSpecs),
       AppendLine(IptablesAzureEgressChain, egressDropSpecs),
       AppendLine(IptablesAzureEgressChain, jumpOnIngressMatchSpecs),
       AppendLine(IptablesAzureAcceptChain, acceptSpecs),
       CommitLine >>

creatorForBootupNoFlush(currentChains) ==
    newCreatorWithChains(SelectMissing(iptablesAzureChains, currentChains)) \o BootupRuleLines

\* the restore file of bootup for the chains enumerated in the backend
creatorForBootup(currentChains) ==
    newCreatorWithChains(SelectMissing(iptablesAzureChains, currentChains))
        \o FlushLines(SetToSeq(currentChains))
        \o BootupRuleLines

\* the stale set creatorForBootup leaves: emptied, then every enumerated chain added
staleAfterCreatorForBootup(s, currentChains) == addEach(empty(s), currentChains)

\* the restore file of the cleanup of the other backend
creatorForCleanup(chains) == newCreatorWithChains(<< >>) \o FlushLines(chains) \o << CommitLine >>

\* whether a line can be applied: a flush or an append needs its chain
LineApplies(tbl, line) == line.op \in {"flush", "append"} => line.chain \in DOMAIN tbl

\* the chains after one line
ApplyLine(tbl, line) ==
    CASE line.op = "chain" ->
            [c \in DOMAIN tbl \cup {line.chain} |-> IF c = line.chain THEN << >> ELSE tbl[c]]
      [] line.op = "flush" -> [tbl EXCEPT ![line.chain] = << >>]
      [] line.op = "append" -> [tbl EXCEPT ![line.chain] = Append(@, line.rule)]
      [] OTHER -> tbl

RECURSIVE ApplyLines(_, _, _)
ApplyLines(tbl, lines, i) ==
    IF i > Len(lines) THEN [ok |-> TRUE, tbl |-> tbl]
    ELSE IF ~LineApplies(tbl, lines[i]) THEN [ok |-> FALSE, tbl |-> tbl]
    ELSE ApplyLines(ApplyLine(tbl, lines[i]), lines, i + 1)

\* restore: all lines or none (the chains and the file are taken as they are when the
\* command is run, and the lines are applied to them once)
restore(fault, tbl, lines) ==
    CHOOSE res \in { IF fault # "none" \/ ~r.ok THEN [ok |-> FALSE, tbl |-> tbl] ELSE r :
                       r \in { ApplyLines(t, l, 1) : t \in {tbl}, l \in {lines} } } : TRUE

(***************************************************************************)
(* The jump positioner's arithmetic.                                       *)
(***************************************************************************)
targetIndexAlwaysFirst(placement, kubeChainLineNum) == 1

targetIndexAtKubeServices(placement, kubeChainLineNum) ==
    IF placement = PlaceAfterKubeServices /\ kubeChainLineNum # 0
    THEN kubeChainLineNum
    ELSE 1

\* the index the jump should have, from the placement policy and the KUBE-SERVICES line
targetIndex(placement, kubeChainLineNum) ==
    IF placement = PlaceAfterKubeServices /\ kubeChainLineNum # 0
    THEN kubeChainLineNum + 1
    ELSE 1

\* the index to insert at once the jump at azureChainLineNum has been deleted
targetIndexAfterDelete(azureChainLineNum, target) ==
    IF azureChainLineNum < target THEN target - 1 ELSE target

(***************************************************************************)
(* State.                                                                  *)
(***************************************************************************)
VARIABLES
    Iptables,              \* util.Iptables: the backend every command is built for
    markers,               \* backend -> the marker chains ("hint", "canary") listable in it
    PlaceAzureChainFirst,  \* pMgr.PlaceAzureChainFirst: the placement policy
    forward,               \* backend -> the rules of its FORWARD chain
    tables,                \* backend -> (chain name -> rules) of its AZURE-NPM* chains
    chainsToCleanup,       \* pMgr.staleChains.chainsToCleanup
    releaseLockSignal,     \* signals pending in reconcileManager.releaseLockSignal
    lockHolder,            \* the goroutine holding the reconcileManager mutex, or "none"
    pc,                    \* goroutine -> where it is
    pos,                   \* positioner locals of bootup and of reconcile
    boot,                  \* locals of the bootup call
    rec,                   \* locals of the reconcile tick
    calls,                 \* goroutine -> calls started
    lastResult,            \* goroutine -> "none", "ok", "error" or "stopped": how its last call ended
    running,               \* a bootup has succeeded: the reconcile loop is running
    sequential,            \* calls are made one at a time (no two goroutines in a call)
    faults,                \* failures the environment may still inject
    detected,              \* the backend the last version detection chose, or "none"
    lastCommand,           \* history: the iptables command issued last
    disturbed,             \* history: goroutines whose call another one's FORWARD write fell into
    ipRules,               \* the IPv4 ip rules of the host (what netlink lists and adds to)
    nodeSetup              \* history of the calls of NodeConfiguration.Run

vars ==
    << Iptables, markers, PlaceAzureChainFirst, forward, tables, chainsToCleanup,
       releaseLockSignal, lockHolder, pc, pos, boot, rec, calls, lastResult, running,
       sequential, faults, detected, lastCommand, disturbed, ipRules, nodeSetup >>

Bootup == "bootup"
Reconcile == "reconcile"
Adder == "adder"
Procs == {Bootup, Reconcile, Adder}
PosProcs == {Bootup, Reconcile}
ForcedProcs == {Bootup, Adder}

\* the capacity of releaseLockSignal
ChannelCapacity == 1

BootIdle ==
    [ probe |-> "none", prevIptables |-> "none", hadNFT |-> FALSE, deletedJumpRule |-> FALSE,
      currentChains |-> {}, toFlush |-> {}, toDestroy |-> {}, err |-> FALSE, stopped |-> FALSE,
      iptablesAtCall |-> "none" ]

\* (history: interrupted is the chains the pass had not processed when it was told
\* to stop, with the chains marked stale since; owed is those of them that every
\* bootup since has enumerated; sinceSignal is the delete commands the pass has issued
\* while a signal was pending; failed is the chains whose delete in this pass exited with
\* an error other than the chain being absent)
RecIdle ==
    [ chains |-> << >>, k |-> 0, aggregateError |-> FALSE, interrupted |-> {}, owed |-> {},
      sinceSignal |-> 0, failed |-> {} ]

PosIdle == [ azureChainLineNum |-> 0, target |-> 0, inserted |-> FALSE, listing |-> << >> ]

\* (history of a command handed to ignoreErrorsAndRunIPTablesCommand on its own: the
\* ignore table, how the command ended and what it printed, and what the call returned)
NoRun ==
    [state |-> "none", ignored |-> {}, exitError |-> FALSE, code |-> 0, output |-> << >>,
     returned |-> 0, err |-> FALSE, metric |-> FALSE]

NoCommand ==
    [proc |-> "none", op |-> "none", backend |-> "none", chain |-> "", authoritative |-> TRUE,
     result |-> "ok", run |-> NoRun]

\* no call of Run yet
NodeIdle ==
    [wireserverIP |-> "168.63.129.16", runs |-> 0, err |-> "none", added |-> 0, addedTotal |-> 0,
     existing |-> << >>]

InitGoroutines ==
    /\ chainsToCleanup = {}
    /\ releaseLockSignal = 0
    /\ lockHolder = "none"
    /\ pc = [p \in Procs |-> "idle"]
    /\ pos = [p \in PosProcs |-> PosIdle]
    /\ boot = BootIdle
    /\ rec = RecIdle
    /\ calls = [p \in Procs |-> 0]
    /\ lastResult = [p \in Procs |-> "none"]
    /\ running = FALSE
    /\ detected = "none"
    /\ disturbed = {}

\* no goroutine is in a call, and node setup has not run on a host without ip rules
InitProcess ==
    /\ InitGoroutines
    /\ ipRules = << >>
    /\ nodeSetup = NodeIdle

\* the chains of a backend: the given chains, each holding one rule of an earlier run
OldTable(chainSet) == [c \in chainSet |-> << "old rule" >>]

(***************************************************************************)
(* Helpers of the actions.                                                 *)
(***************************************************************************)
\* how the environment may make the next iptables command fail
FaultChoices == IF faults > 0 THEN {"none", "exit", "failure", "nostart"} ELSE {"none"}

\* how it may make a restore, an enumeration or a listing fail
FailChoices == IF faults > 0 THEN {"none", "exit"} ELSE {"none"}

Spend(fault) == faults' = IF fault = "none" THEN faults ELSE faults - 1

InCall == { p \in PosProcs : pc[p] # "idle" }

\* how a command ended: "ok", "exit" (with a non-zero exit status) or "nostart" (it could
\* not be run)
ResultOf(out) ==
    IF out.exitError THEN "exit" ELSE IF out.stderr = << "cannot start" >> THEN "nostart" ELSE "ok"

Command(p, b, op, chain, result) ==
    [proc |-> p, op |-> op, backend |-> b, chain |-> chain, authoritative |-> (b = detected),
     result |-> result, run |-> NoRun]

\* goroutine p has run a command against backend b, which left `out`
Kernel(p, b, op, chain, out) ==
    /\ forward' = [forward EXCEPT ![b] = out.fwd]
    /\ tables' = [tables EXCEPT ![b] = out.tbl]
    /\ lastCommand' = Command(p, b, op, chain, ResultOf(out))
    /\ disturbed' = IF out.fwd # forward[b] THEN disturbed \cup (InCall \ {p}) ELSE disturbed

\* goroutine p has run a command that changes nothing (a listing, an enumeration)
ReadOnly(p, b, op, chain, result) ==
    /\ lastCommand' = Command(p, b, op, chain, result)
    /\ UNCHANGED << forward, tables, disturbed >>

Goto(p, label) == pc' = [pc EXCEPT ![p] = label]

MayStart(p) ==
    /\ pc[p] = "idle"
    /\ sequential => \A q \in Procs : pc[q] = "idle"

SetNft == IptablesNft
SetLegacy == IptablesLegacy

(***************************************************************************)
(* bootup: 0.1 detectIptablesVersion.                                      *)
(***************************************************************************)
BootupStart ==
    /\ MayStart(Bootup)
    /\ calls[Bootup] < MaxBootups
    /\ calls' = [calls EXCEPT ![Bootup] = @ + 1]
    /\ boot' = [BootIdle EXCEPT !.probe = IptablesNft, !.iptablesAtCall = Iptables]
    /\ disturbed' = disturbed \ {Bootup}
    /\ pos' = [pos EXCEPT ![Bootup] = PosIdle]
    /\ Goto(Bootup, "detect_hint")
    /\ UNCHANGED << Iptables, markers, PlaceAzureChainFirst, forward, tables, chainsToCleanup,
                    releaseLockSignal, lockHolder, rec, lastResult, running, sequential,
                    ipRules, nodeSetup,
                    faults, detected, lastCommand >>

BootupGoesOnUnlocked(err) ==
    /\ Goto(Bootup, "forceLock_send")
    /\ UNCHANGED lastResult

\* bootup returns before forceLock (the version could not be detected)
BootupReturnsUnlocked(err) ==
    /\ Goto(Bootup, "idle")
    /\ lastResult' = [lastResult EXCEPT ![Bootup] = IF err THEN "error" ELSE "ok"]

\* hintOrCanaryChainExist(boot.probe): util.Iptables is set to the probed backend and
\* the hint chain is listed; when it is found the deferred restore and the caller's
\* SetIptablesTo<probe> leave util.Iptables at the probed backend
DetectHint ==
    /\ pc[Bootup] = "detect_hint"
    /\ \E fault \in FaultChoices :
         LET b == boot.probe
             out == ListMarkerCommand(fault, "hint" \in markers[b])
             r == runIPTablesCommand(out)
         IN  /\ Spend(fault)
             /\ Iptables' = b
             /\ ReadOnly(Bootup, b, "list", "KUBE-IPTABLES-HINT", ResultOf(out))
             /\ IF ~r.err
                THEN /\ detected' = b
                     /\ boot' = boot
                     /\ Goto(Bootup, "forceLock_send")
                ELSE /\ detected' = detected
                     /\ boot' = [boot EXCEPT !.prevIptables = Iptables]
                     /\ Goto(Bootup, "detect_canary")
    /\ UNCHANGED << markers, PlaceAzureChainFirst, chainsToCleanup, releaseLockSignal,
                    lockHolder, pos, rec, calls, lastResult, running, sequential, ipRules,
                    nodeSetup >>

\* the canary chain is listed under the probed backend; when it is not found either,
\* util.Iptables is put back and the other backend is probed, or detection fails
DetectCanary ==
    /\ pc[Bootup] = "detect_canary"
    /\ \E fault \in FaultChoices :
         LET b == Iptables
             out == ListMarkerCommand(fault, "canary" \in markers[b])
             r == runIPTablesCommand(out)
         IN  /\ Spend(fault)
             /\ ReadOnly(Bootup, b, "list", "KUBE-KUBELET-CANARY", ResultOf(out))
             /\ IF ~r.err
                THEN /\ Iptables' = boot.probe
                     /\ detected' = boot.probe
                     /\ boot' = boot
                     /\ Goto(Bootup, "forceLock_send")
                     /\ UNCHANGED lastResult
                ELSE /\ Iptables' = boot.prevIptables
                     /\ detected' = detected
                     /\ IF boot.probe = IptablesNft
                        THEN /\ boot' = [boot EXCEPT !.probe = IptablesLegacy]
                             /\ Goto(Bootup, "detect_hint")
                             /\ UNCHANGED lastResult
                        ELSE /\ boot' = BootIdle
                             /\ BootupReturnsUnlocked(TRUE)
    /\ UNCHANGED << markers, PlaceAzureChainFirst, chainsToCleanup, releaseLockSignal,
                    lockHolder, pos, rec, calls, running, sequential, ipRules, nodeSetup >>

(***************************************************************************)
(* reconcileManager: forceLock and forceUnlock, of bootup and of the       *)
(* forced caller that marks a chain stale.                                 *)
(***************************************************************************)
\* rm.releaseLockSignal <- struct{}{}: blocks while the channel is full
ForceLockSend(p) ==
    /\ pc[p] = "forceLock_send"
    /\ releaseLockSignal < ChannelCapacity
    /\ releaseLockSignal' = releaseLockSignal + 1
    /\ Goto(p, "forceLock_lock")
    /\ UNCHANGED << Iptables, markers, PlaceAzureChainFirst, forward, tables, chainsToCleanup,
                    lockHolder, pos, boot, rec, calls, lastResult, running, sequential,
                    ipRules, nodeSetup,
                    faults, detected, lastCommand, disturbed >>

ForceLockNoWait(p) ==
    /\ pc[p] = "forceLock_lock"
    /\ lockHolder' = p
    /\ Goto(p, IF p = Bootup THEN "cleanup_deleteDeprecated" ELSE "add")
    /\ UNCHANGED << Iptables, markers, PlaceAzureChainFirst, forward, tables, chainsToCleanup,
                    releaseLockSignal, pos, boot, rec, calls, lastResult, running,
                    sequential, ipRules, nodeSetup,
                    faults, detected, lastCommand, disturbed >>

\* rm.Lock()
ForceLockLock(p) ==
    /\ pc[p] = "forceLock_lock"
    /\ lockHolder = "none"
    /\ lockHolder' = p
    /\ Goto(p, IF p = Bootup THEN "cleanup_deleteDeprecated" ELSE "add")
    /\ UNCHANGED << Iptables, markers, PlaceAzureChainFirst, forward, tables, chainsToCleanup,
                    releaseLockSignal, pos, boot, rec, calls, lastResult, running,
                    sequential, ipRules, nodeSetup,
                    faults, detected, lastCommand, disturbed >>

ForceUnlockNoDrain(p) ==
    /\ pc[p] = "forceUnlock_drain"
    /\ Goto(p, "forceUnlock_unlock")
    /\ UNCHANGED << Iptables, markers, PlaceAzureChainFirst, forward, tables, chainsToCleanup,
                    releaseLockSignal, lockHolder, pos, boot, rec, calls, lastResult, running,
                    sequential, ipRules, nodeSetup, faults, detected, lastCommand, disturbed >>

\* forceUnlock's select: takes a pending signal, if there is one
ForceUnlockDrain(p) ==
    /\ pc[p] = "forceUnlock_drain"
    /\ releaseLockSignal' = IF releaseLockSignal > 0 THEN releaseLockSignal - 1 ELSE 0
    /\ Goto(p, "forceUnlock_unlock")
    /\ UNCHANGED << Iptables, markers, PlaceAzureChainFirst, forward, tables, chainsToCleanup,
                    lockHolder, pos, boot, rec, calls, lastResult, running, sequential,
                    ipRules, nodeSetup,
                    faults, detected, lastCommand, disturbed >>

\* forceUnlock's rm.Unlock(); the forced caller returns
ForceUnlockUnlock(p) ==
    /\ pc[p] = "forceUnlock_unlock"
    /\ lockHolder' = "none"
    /\ Goto(p, "idle")
    /\ IF p = Bootup
       THEN /\ lastResult' = [lastResult EXCEPT ![p] = IF boot.stopped THEN "stopped"
                                                       ELSE IF boot.err THEN "error" ELSE "ok"]
            /\ running' = (running \/ ~boot.err)
            /\ boot' = BootIdle
       ELSE /\ lastResult' = [lastResult EXCEPT ![p] = "ok"]
            /\ UNCHANGED << running, boot >>
    /\ UNCHANGED << Iptables, markers, PlaceAzureChainFirst, forward, tables, chainsToCleanup,
                    releaseLockSignal, pos, rec, calls, sequential, ipRules, nodeSetup,
                    faults, detected, lastCommand,
                    disturbed >>

(***************************************************************************)
(* bootup: 0.2 cleanupOtherIptables, run holding the lock.                 *)
(***************************************************************************)
\* the deferred function of cleanupOtherIptables: util.Iptables is set back
Restored(hadNFT) == IF hadNFT THEN SetNft ELSE SetLegacy

CleanupReturnsUnrestored(err) ==
    /\ Iptables' = Iptables
    /\ Goto(Bootup, IF err THEN "forceUnlock_drain" ELSE "bootup_deleteDeprecated")

\* cleanupOtherIptables returns err (bootup then returns it) or nil
CleanupReturns(err) ==
    /\ Iptables' = Restored(boot.hadNFT)
    /\ Goto(Bootup, IF err THEN "forceUnlock_drain" ELSE "bootup_deleteDeprecated")

\* util.Iptables is switched to the other backend; 1.1 delete the deprecated jump
CleanupDeleteDeprecated ==
    /\ pc[Bootup] = "cleanup_deleteDeprecated"
    /\ \E fault \in FaultChoices :
         LET hadNFT == (Iptables = IptablesNft)
             b == IF hadNFT THEN SetLegacy ELSE SetNft
             out == DeleteRuleCommand(b, fault, forward[b], tables[b],
                                      deprecatedJumpFromForwardToAzureChain)
             r == ignoreErrorsAndRunIPTablesCommand(removeDeprecatedJumpIgnoredErrors, out)
         IN  /\ Spend(fault)
             /\ Iptables' = b
             /\ Kernel(Bootup, b, "delete-rule", IptablesAzureChain, out)
             /\ boot' = [boot EXCEPT !.hadNFT = hadNFT, !.deletedJumpRule = (r.code = 0)]
    /\ Goto(Bootup, "cleanup_deleteJump")
    /\ UNCHANGED << markers, PlaceAzureChainFirst, chainsToCleanup, releaseLockSignal,
                    lockHolder, pos, rec, calls, lastResult, running, sequential, ipRules,
                    nodeSetup, detected >>

\* 1.2 delete the jump
CleanupDeleteJump ==
    /\ pc[Bootup] = "cleanup_deleteJump"
    /\ \E fault \in FaultChoices :
         LET b == Iptables
             out == DeleteRuleCommand(b, fault, forward[b], tables[b],
                                      jumpFromForwardToAzureChain)
             r == ignoreErrorsAndRunIPTablesCommand(removeDeprecatedJumpIgnoredErrors, out)
         IN  /\ Spend(fault)
             /\ Kernel(Bootup, b, "delete-rule", IptablesAzureChain, out)
             /\ boot' = [boot EXCEPT !.deletedJumpRule = (@ \/ r.code = 0)]
    /\ Goto(Bootup, "cleanup_enumerate")
    /\ UNCHANGED << Iptables, markers, PlaceAzureChainFirst, chainsToCleanup,
                    releaseLockSignal, lockHolder, pos, rec, calls, lastResult, running,
                    sequential, ipRules, nodeSetup, detected >>

\* `chains`: AZURE-NPM first, then the others in the map's iteration order.  In the
\* restore file the order changes nothing; for the deletions of step 4 the order
\* is resolved as each element is reached (NextOfChains)
chainsOfCleanup(currentChains) ==
    IF IptablesAzureChain \in currentChains
    THEN << IptablesAzureChain >> \o SetToSeq(currentChains \ {IptablesAzureChain})
    ELSE SetToSeq(currentChains)

NextOfChainsAnyOrder(toDestroy) == toDestroy

\* the chains that may come next in `chains` when toDestroy are still to come
NextOfChains(toDestroy) ==
    IF IptablesAzureChain \in toDestroy THEN {IptablesAzureChain} ELSE toDestroy

CleanupEnumerateGoesOnWhenEmpty ==
    /\ pc[Bootup] = "cleanup_enumerate"
    /\ \E fail \in FailChoices :
         /\ Spend(fail)
         /\ ReadOnly(Bootup, Iptables, "enumerate", "", IF fail = "none" THEN "ok" ELSE "exit")
         /\ IF fail # "none"
            THEN /\ boot' = [boot EXCEPT !.err = TRUE]
                 /\ CleanupReturns(TRUE)
            ELSE LET currentChains == DOMAIN tables[Iptables]
                 IN  /\ boot' = [boot EXCEPT !.currentChains = currentChains,
                                             !.toDestroy = currentChains]
                     /\ Goto(Bootup, "cleanup_restore")
                     /\ UNCHANGED Iptables
    /\ UNCHANGED << markers, PlaceAzureChainFirst, chainsToCleanup, releaseLockSignal,
                    lockHolder, pos, rec, calls, lastResult, running, sequential, ipRules,
                    nodeSetup, detected >>

\* 2. get current chains; nothing to clean up when there is none
CleanupEnumerate ==
    /\ pc[Bootup] = "cleanup_enumerate"
    /\ \E fail \in FailChoices :
         /\ Spend(fail)
         /\ ReadOnly(Bootup, Iptables, "enumerate", "", IF fail = "none" THEN "ok" ELSE "exit")
         /\ IF fail # "none"
            THEN /\ boot' = [boot EXCEPT !.err = TRUE]
                 /\ CleanupReturns(TRUE)
            ELSE LET currentChains == DOMAIN tables[Iptables]
                 IN  IF currentChains = {}
                     THEN /\ boot' = boot
                          /\ CleanupReturns(FALSE)
                     ELSE /\ boot' = [boot EXCEPT !.currentChains = currentChains,
                                                  !.toDestroy = currentChains]
                          /\ Goto(Bootup, "cleanup_restore")
                          /\ UNCHANGED Iptables
    /\ UNCHANGED << markers, PlaceAzureChainFirst, chainsToCleanup, releaseLockSignal,
                    lockHolder, pos, rec, calls, lastResult, running, sequential, ipRules,
                    nodeSetup, detected >>

CleanupRestoreNoFallback ==
    /\ pc[Bootup] = "cleanup_restore"
    /\ \E fail \in FailChoices :
         LET b == Iptables
             res == restore(fail, tables[b], creatorForCleanup(chainsOfCleanup(boot.currentChains)))
         IN  /\ Spend(fail)
             /\ Kernel(Bootup, b, "restore", "", Outcome(~res.ok, 0, << >>, forward[b], res.tbl))
             /\ boot' = boot
             /\ Goto(Bootup, "cleanup_destroy")
    /\ UNCHANGED << Iptables, markers, PlaceAzureChainFirst, chainsToCleanup,
                    releaseLockSignal, lockHolder, pos, rec, calls, lastResult, running,
                    sequential, ipRules, nodeSetup, detected >>

\* 3.1 try to flush all chains at once
CleanupRestore ==
    /\ pc[Bootup] = "cleanup_restore"
    /\ \E fail \in FailChoices :
         LET b == Iptables
             res == restore(fail, tables[b], creatorForCleanup(chainsOfCleanup(boot.currentChains)))
         IN  /\ Spend(fail)
             /\ Kernel(Bootup, b, "restore", "", Outcome(~res.ok, 0, << >>, forward[b], res.tbl))
             /\ IF res.ok
                THEN /\ boot' = boot
                     /\ Goto(Bootup, "cleanup_destroy")
                ELSE IF IptablesAzureChain \in boot.currentChains
                THEN /\ boot' = boot
                     /\ Goto(Bootup, "cleanup_flushAzure")
                ELSE /\ boot' = [boot EXCEPT !.toFlush = boot.currentChains]
                     /\ Goto(Bootup, "cleanup_flushChain")
    /\ UNCHANGED << Iptables, markers, PlaceAzureChainFirst, chainsToCleanup,
                    releaseLockSignal, lockHolder, pos, rec, calls, lastResult, running,
                    sequential, ipRules, nodeSetup, detected >>

CleanupFlushAzureNeverFatal ==
    /\ pc[Bootup] = "cleanup_flushAzure"
    /\ \E fault \in FaultChoices :
         LET b == Iptables
             out == FlushChainCommand(b, fault, forward[b], tables[b], IptablesAzureChain)
             rest == boot.currentChains \ {IptablesAzureChain}
         IN  /\ Spend(fault)
             /\ Kernel(Bootup, b, "flush-chain", IptablesAzureChain, out)
             /\ boot' = [boot EXCEPT !.toFlush = rest]
             /\ Goto(Bootup, IF rest = {} THEN "cleanup_destroy" ELSE "cleanup_flushChain")
             /\ UNCHANGED Iptables
    /\ UNCHANGED << markers, PlaceAzureChainFirst, chainsToCleanup, releaseLockSignal,
                    lockHolder, pos, rec, calls, lastResult, running, sequential, ipRules,
                    nodeSetup, detected >>

\* 3.2 the batch failed: flush AZURE-NPM; failing that with no jump deleted is fatal
CleanupFlushAzure ==
    /\ pc[Bootup] = "cleanup_flushAzure"
    /\ \E fault \in FaultChoices :
         LET b == Iptables
             out == FlushChainCommand(b, fault, forward[b], tables[b], IptablesAzureChain)
             r == runIPTablesCommand(out)
             rest == boot.currentChains \ {IptablesAzureChain}
         IN  /\ Spend(fault)
             /\ Kernel(Bootup, b, "flush-chain", IptablesAzureChain, out)
             /\ IF r.err /\ ~boot.deletedJumpRule
                THEN /\ boot' = [boot EXCEPT !.err = TRUE]
                     /\ CleanupReturns(TRUE)
                ELSE /\ boot' = [boot EXCEPT !.toFlush = rest]
                     /\ Goto(Bootup, IF rest = {} THEN "cleanup_destroy" ELSE "cleanup_flushChain")
                     /\ UNCHANGED Iptables
    /\ UNCHANGED << markers, PlaceAzureChainFirst, chainsToCleanup, releaseLockSignal,
                    lockHolder, pos, rec, calls, lastResult, running, sequential, ipRules,
                    nodeSetup, detected >>

\* 3.2 flush the other chains one by one (in the map's order); failures are benign
CleanupFlushChain ==
    /\ pc[Bootup] = "cleanup_flushChain"
    /\ \E chain \in boot.toFlush, fault \in FaultChoices :
         LET b == Iptables
             out == FlushChainCommand(b, fault, forward[b], tables[b], chain)
             rest == boot.toFlush \ {chain}
         IN  /\ Spend(fault)
             /\ Kernel(Bootup, b, "flush-chain", chain, out)
             /\ boot' = [boot EXCEPT !.toFlush = rest]
             /\ Goto(Bootup, IF rest = {} THEN "cleanup_destroy" ELSE "cleanup_flushChain")
    /\ UNCHANGED << Iptables, markers, PlaceAzureChainFirst, chainsToCleanup,
                    releaseLockSignal, lockHolder, pos, rec, calls, lastResult, running,
                    sequential, ipRules, nodeSetup, detected >>

\* 4. delete all chains, in the order of `chains`; failures are benign
CleanupDestroy ==
    /\ pc[Bootup] = "cleanup_destroy"
    /\ \E chain \in NextOfChains(boot.toDestroy), fault \in FaultChoices :
         LET b == Iptables
             out == DestroyChainCommand(b, fault, forward[b], tables[b], chain)
             rest == boot.toDestroy \ {chain}
         IN  /\ Spend(fault)
             /\ Kernel(Bootup, b, "destroy-chain", chain, out)
             /\ boot' = [boot EXCEPT !.toDestroy = rest]
             /\ IF rest = {}
                THEN CleanupReturns(FALSE)
                ELSE /\ Goto(Bootup, "cleanup_destroy")
                     /\ UNCHANGED Iptables
    /\ UNCHANGED << markers, PlaceAzureChainFirst, chainsToCleanup, releaseLockSignal,
                    lockHolder, pos, rec, calls, lastResult, running, sequential, ipRules,
                    nodeSetup, detected >>

(***************************************************************************)
(* bootup: bootupAfterDetectAndCleanup, run holding the lock.              *)
(***************************************************************************)
\* 1. delete the deprecated jump to AZURE-NPM (errors are logged only)
BootupDeleteDeprecated ==
    /\ pc[Bootup] = "bootup_deleteDeprecated"
    /\ \E fault \in FaultChoices :
         LET b == Iptables
             out == DeleteRuleCommand(b, fault, forward[b], tables[b],
                                      deprecatedJumpFromForwardToAzureChain)
         IN  /\ Spend(fault)
             /\ Kernel(Bootup, b, "delete-rule", IptablesAzureChain, out)
    /\ Goto(Bootup, "bootup_enumerate")
    /\ UNCHANGED << Iptables, markers, PlaceAzureChainFirst, chainsToCleanup,
                    releaseLockSignal, lockHolder, pos, boot, rec, calls, lastResult, running,
                    sequential, ipRules, nodeSetup, detected >>

BootupEnumerateReturnsLocked ==
    /\ pc[Bootup] = "bootup_enumerate"
    /\ \E fail \in FailChoices :
         /\ Spend(fail)
         /\ ReadOnly(Bootup, Iptables, "enumerate", "", IF fail = "none" THEN "ok" ELSE "exit")
         /\ IF fail # "none"
            THEN /\ boot' = [boot EXCEPT !.err = TRUE]
                 /\ Goto(Bootup, "idle")
            ELSE /\ boot' = [boot EXCEPT !.currentChains = DOMAIN tables[Iptables]]
                 /\ Goto(Bootup, "bootup_restore")
    /\ UNCHANGED << Iptables, markers, PlaceAzureChainFirst, chainsToCleanup,
                    releaseLockSignal, lockHolder, pos, rec, calls, lastResult, running,
                    sequential, ipRules, nodeSetup, detected >>

\* AllCurrentAzureChains
BootupEnumerate ==
    /\ pc[Bootup] = "bootup_enumerate"
    /\ \E fail \in FailChoices :
         /\ Spend(fail)
         /\ ReadOnly(Bootup, Iptables, "enumerate", "", IF fail = "none" THEN "ok" ELSE "exit")
         /\ IF fail # "none"
            THEN /\ boot' = [boot EXCEPT !.err = TRUE]
                 /\ Goto(Bootup, "forceUnlock_drain")
            ELSE /\ boot' = [boot EXCEPT !.currentChains = DOMAIN tables[Iptables]]
                 /\ Goto(Bootup, "bootup_restore")
    /\ UNCHANGED << Iptables, markers, PlaceAzureChainFirst, chainsToCleanup,
                    releaseLockSignal, lockHolder, pos, rec, calls, lastResult, running,
                    sequential, ipRules, nodeSetup, detected >>

BootupRestorePositionsAnyway ==
    /\ pc[Bootup] = "bootup_restore"
    /\ chainsToCleanup' = staleAfterCreatorForBootup(chainsToCleanup, boot.currentChains)
    /\ rec' = [rec EXCEPT !.owed = @ \cap boot.currentChains]
    /\ \E fail \in FailChoices :
         LET b == Iptables
             res == restore(fail, tables[b], creatorForBootup(boot.currentChains))
         IN  /\ Spend(fail)
             /\ Kernel(Bootup, b, "restore", "", Outcome(~res.ok, 0, << >>, forward[b], res.tbl))
             /\ boot' = boot
             /\ Goto(Bootup, "position_listAzure")
    /\ UNCHANGED << Iptables, markers, PlaceAzureChainFirst, releaseLockSignal, lockHolder,
                    pos, calls, lastResult, running, sequential, ipRules, nodeSetup, detected >>

\* 2. creatorForBootup (which rebuilds the stale set) and restore
BootupRestore ==
    /\ pc[Bootup] = "bootup_restore"
    /\ chainsToCleanup' = staleAfterCreatorForBootup(chainsToCleanup, boot.currentChains)
    /\ rec' = [rec EXCEPT !.owed = @ \cap boot.currentChains]
    /\ \E fail \in FailChoices :
         LET b == Iptables
             res == restore(fail, tables[b], creatorForBootup(boot.currentChains))
         IN  /\ Spend(fail)
             /\ Kernel(Bootup, b, "restore", "", Outcome(~res.ok, 0, << >>, forward[b], res.tbl))
             /\ IF res.ok
                THEN /\ boot' = boot
                     /\ Goto(Bootup, "position_listAzure")
                ELSE /\ boot' = [boot EXCEPT !.err = TRUE]
                     /\ Goto(Bootup, "forceUnlock_drain")
    /\ UNCHANGED << Iptables, markers, PlaceAzureChainFirst, releaseLockSignal, lockHolder,
                    pos, calls, lastResult, running, sequential, ipRules, nodeSetup, detected >>

(***************************************************************************)
(* positionAzureChainJumpRule, of bootup (3.) and of reconcile.            *)
(***************************************************************************)
PositionReturnsEndsTickOnError(p, err, inserted) ==
    /\ pos' = [pos EXCEPT ![p] = [PosIdle EXCEPT !.azureChainLineNum = pos[p].azureChainLineNum,
                                                  !.inserted = inserted]]
    /\ IF p = Bootup
       THEN /\ boot' = [boot EXCEPT !.err = err,
                                     !.stopped = (err /\ pc[p] = "position_listAzure")]
            /\ Goto(p, "forceUnlock_drain")
            /\ UNCHANGED lastResult
       ELSE /\ lastResult' = [lastResult EXCEPT ![p] = IF err THEN "error" ELSE "ok"]
            /\ Goto(p, IF err THEN "idle" ELSE "reconcile_lock")
            /\ UNCHANGED boot

\* the positioner returns to its caller: bootup returns, reconcile goes on to lock
\* (history: inserted is whether this run has added a jump to a FORWARD chain,
\* azureChainLineNum stays what the run found; boot.stopped is whether bootup returns
\* from the first step of the positioner, with the payload applied and no jump moved)
PositionReturns(p, err, inserted) ==
    /\ pos' = [pos EXCEPT ![p] = [PosIdle EXCEPT !.azureChainLineNum = pos[p].azureChainLineNum,
                                                  !.inserted = inserted]]
    /\ IF p = Bootup
       THEN /\ boot' = [boot EXCEPT !.err = err,
                                     !.stopped = (err /\ pc[p] = "position_listAzure")]
            /\ Goto(p, "forceUnlock_drain")
            /\ UNCHANGED lastResult
       ELSE /\ lastResult' = [lastResult EXCEPT ![p] = IF err THEN "error" ELSE "ok"]
            /\ Goto(p, "reconcile_lock")
            /\ UNCHANGED boot

\* the positioner goes on to delete the jump, if there is one, and to insert it
\* (history: listing is the FORWARD listing in which the run looked for the azure jump)
PositionMoves(p, azureChainLineNum, target) ==
    /\ pos' = [pos EXCEPT ![p] = [PosIdle EXCEPT !.azureChainLineNum = azureChainLineNum,
                                                  !.target = target,
                                                  !.listing = IF pc[p] = "position_listAzure"
                                                              THEN forward[Iptables]
                                                              ELSE pos[p].listing]]
    /\ Goto(p, IF azureChainLineNum # 0 THEN "position_delete" ELSE "position_insert")
    /\ UNCHANGED << boot, lastResult >>

\* chainLineNumber(AZURE-NPM)
PositionListAzure(p) ==
    /\ pc[p] = "position_listAzure"
    /\ \E fail \in FailChoices :
         LET azureChainLineNum == chainLineNumber(forward[Iptables], IptablesAzureChain)
         IN  /\ Spend(fail)
             /\ ReadOnly(p, Iptables, "list", IptablesAzureChain,
                         IF fail = "none" THEN "ok" ELSE "exit")
             /\ IF fail # "none"
                THEN PositionReturns(p, TRUE, FALSE)
                ELSE IF PlaceAzureChainFirst = PlaceFirst /\ azureChainLineNum = 1
                THEN PositionReturns(p, FALSE, FALSE)
                ELSE IF PlaceAzureChainFirst = PlaceAfterKubeServices
                THEN /\ pos' = [pos EXCEPT ![p].azureChainLineNum = azureChainLineNum,
                                            ![p].listing = forward[Iptables]]
                     /\ Goto(p, "position_listKube")
                     /\ UNCHANGED << boot, lastResult >>
                ELSE IF azureChainLineNum = targetIndex(PlaceAzureChainFirst, 0)
                THEN PositionReturns(p, FALSE, FALSE)
                ELSE PositionMoves(p, azureChainLineNum, targetIndex(PlaceAzureChainFirst, 0))
    /\ UNCHANGED << Iptables, markers, PlaceAzureChainFirst, chainsToCleanup,
                    releaseLockSignal, lockHolder, rec, calls, running, sequential,
                    ipRules, nodeSetup, detected >>

\* chainLineNumber(KUBE-SERVICES), under the policy "after KUBE-SERVICES"
PositionListKube(p) ==
    /\ pc[p] = "position_listKube"
    /\ \E fail \in FailChoices :
         LET kubeChainLineNum == chainLineNumber(forward[Iptables], IptablesKubeServicesChain)
             target == targetIndex(PlaceAzureChainFirst, kubeChainLineNum)
         IN  /\ Spend(fail)
             /\ ReadOnly(p, Iptables, "list", IptablesKubeServicesChain,
                         IF fail = "none" THEN "ok" ELSE "exit")
             /\ IF fail # "none"
                THEN PositionReturns(p, TRUE, FALSE)
                ELSE IF pos[p].azureChainLineNum = target
                THEN PositionReturns(p, FALSE, FALSE)
                ELSE PositionMoves(p, pos[p].azureChainLineNum, target)
    /\ UNCHANGED << Iptables, markers, PlaceAzureChainFirst, chainsToCleanup,
                    releaseLockSignal, lockHolder, rec, calls, running, sequential,
                    ipRules, nodeSetup, detected >>

\* delete the azure jump if it exists and update the target index
PositionDelete(p) ==
    /\ pc[p] = "position_delete"
    /\ \E fault \in FaultChoices :
         LET b == Iptables
             out == DeleteRuleCommand(b, fault, forward[b], tables[b],
                                      jumpFromForwardToAzureChain)
             r == runIPTablesCommand(out)
         IN  /\ Spend(fault)
             /\ Kernel(p, b, "delete-rule", IptablesAzureChain, out)
             /\ IF r.err
                THEN PositionReturns(p, TRUE, FALSE)
                ELSE /\ pos' = [pos EXCEPT ![p].target =
                                   targetIndexAfterDelete(pos[p].azureChainLineNum, @)]
                     /\ Goto(p, "position_insert")
                     /\ UNCHANGED << boot, lastResult >>
    /\ UNCHANGED << Iptables, markers, PlaceAzureChainFirst, chainsToCleanup,
                    releaseLockSignal, lockHolder, rec, calls, running, sequential,
                    ipRules, nodeSetup, detected >>

\* add (back) the azure jump
PositionInsert(p) ==
    /\ pc[p] = "position_insert"
    /\ \E fault \in FaultChoices :
         LET b == Iptables
             out == InsertRuleCommand(b, fault, forward[b], tables[b], pos[p].target,
                                      jumpFromForwardToAzureChain)
             r == runIPTablesCommand(out)
         IN  /\ Spend(fault)
             /\ Kernel(p, b, "insert-rule", IptablesAzureChain, out)
             /\ PositionReturns(p, r.err, out.fwd # forward[b])
    /\ UNCHANGED << Iptables, markers, PlaceAzureChainFirst, chainsToCleanup,
                    releaseLockSignal, lockHolder, rec, calls, running, sequential,
                    ipRules, nodeSetup, detected >>

(***************************************************************************)
(* reconcile: one tick of the reconcile loop.                              *)
(***************************************************************************)
ReconcileStart ==
    /\ MayStart(Reconcile)
    /\ running
    /\ calls[Reconcile] < MaxTicks
    /\ calls' = [calls EXCEPT ![Reconcile] = @ + 1]
    /\ disturbed' = disturbed \ {Reconcile}
    /\ lastResult' = [lastResult EXCEPT ![Reconcile] = "none"]
    /\ pos' = [pos EXCEPT ![Reconcile] = PosIdle]
    /\ Goto(Reconcile, "position_listAzure")
    /\ UNCHANGED << Iptables, markers, PlaceAzureChainFirst, forward, tables, chainsToCleanup,
                    releaseLockSignal, lockHolder, boot, rec, running, sequential, ipRules,
                    nodeSetup,
                    faults, detected, lastCommand >>

\* pMgr.reconcileManager.Lock()
ReconcileLock ==
    /\ pc[Reconcile] = "reconcile_lock"
    /\ lockHolder = "none"
    /\ lockHolder' = Reconcile
    /\ Goto(Reconcile, "reconcile_emptyAndGetAll")
    /\ UNCHANGED << Iptables, markers, PlaceAzureChainFirst, forward, tables, chainsToCleanup,
                    releaseLockSignal, pos, boot, rec, calls, lastResult, running,
                    sequential, ipRules, nodeSetup,
                    faults, detected, lastCommand, disturbed >>

\* staleChains := pMgr.staleChains.emptyAndGetAll(); return when it is empty
ReconcileEmptyAndGetAll ==
    /\ pc[Reconcile] = "reconcile_emptyAndGetAll"
    /\ \E staleChains \in emptyAndGetAll(chainsToCleanup) :
         /\ rec' = [RecIdle EXCEPT !.chains = staleChains, !.k = 1]
         /\ chainsToCleanup' = removeAll(chainsToCleanup, staleChains)
         /\ Goto(Reconcile, IF Len(staleChains) = 0 THEN "reconcile_unlock" ELSE "cleanupChains_select")
    /\ UNCHANGED << Iptables, markers, PlaceAzureChainFirst, forward, tables,
                    releaseLockSignal, lockHolder, pos, boot, calls, lastResult, running,
                    sequential, ipRules, nodeSetup, faults, detected, lastCommand, disturbed >>

requeuedAfterCurrent(chains, k) == { chains[j] : j \in (k + 1)..Len(chains) }

\* the chains cleanupChains puts back when it is told to stop before chains[k]
requeued(chains, k) == { chains[j] : j \in k..Len(chains) }

CleanupChainsSelectOnceAtStart ==
    /\ pc[Reconcile] = "cleanupChains_select"
    /\ IF releaseLockSignal > 0 /\ rec.k = 1
       THEN /\ releaseLockSignal' = releaseLockSignal - 1
            /\ chainsToCleanup' = addEach(chainsToCleanup, requeued(rec.chains, rec.k))
            /\ rec' = [rec EXCEPT !.interrupted = { rec.chains[j] : j \in rec.k..Len(rec.chains) },
                                   !.owed = { rec.chains[j] : j \in rec.k..Len(rec.chains) }]
            /\ Goto(Reconcile, "reconcile_unlock")
       ELSE /\ Goto(Reconcile, "cleanupChains_destroy")
            /\ UNCHANGED << releaseLockSignal, chainsToCleanup, rec >>
    /\ UNCHANGED << Iptables, markers, PlaceAzureChainFirst, forward, tables, lockHolder, pos,
                    boot, calls, lastResult, running, sequential, ipRules, nodeSetup,
                    faults, detected, lastCommand,
                    disturbed >>

\* cleanupChains, the select before chains[k]: a pending releaseLockSignal stops the
\* loop and the chains from k on go back to the stale set; otherwise chains[k] is next
CleanupChainsSelect ==
    /\ pc[Reconcile] = "cleanupChains_select"
    /\ IF releaseLockSignal > 0
       THEN /\ releaseLockSignal' = releaseLockSignal - 1
            /\ chainsToCleanup' = addEach(chainsToCleanup, requeued(rec.chains, rec.k))
            /\ rec' = [rec EXCEPT !.interrupted = { rec.chains[j] : j \in rec.k..Len(rec.chains) },
                                   !.owed = { rec.chains[j] : j \in rec.k..Len(rec.chains) }]
            /\ Goto(Reconcile, "reconcile_unlock")
       ELSE /\ Goto(Reconcile, "cleanupChains_destroy")
            /\ UNCHANGED << releaseLockSignal, chainsToCleanup, rec >>
    /\ UNCHANGED << Iptables, markers, PlaceAzureChainFirst, forward, tables, lockHolder, pos,
                    boot, calls, lastResult, running, sequential, ipRules, nodeSetup,
                    faults, detected, lastCommand,
                    disturbed >>

deleteFailedWithAnyCode(r) == r.err

\* whether cleanupChains puts a chain back after its delete returned (code, err)
deleteFailed(r) == r.err /\ r.code # doesNotExistErrorCode

CleanupChainsDestroyStopsOnFailure ==
    /\ pc[Reconcile] = "cleanupChains_destroy"
    /\ \E fault \in FaultChoices :
         LET b == Iptables
             chain == rec.chains[rec.k]
             out == DestroyChainCommand(b, fault, forward[b], tables[b], chain)
             r == runIPTablesCommand(out)
         IN  /\ Spend(fault)
             /\ Kernel(Reconcile, b, "destroy-chain", chain, out)
             /\ chainsToCleanup' =
                    IF deleteFailed(r) THEN add(chainsToCleanup, chain) ELSE chainsToCleanup
             /\ rec' = [rec EXCEPT !.k = @ + 1,
                                   !.aggregateError = (@ \/ deleteFailed(r)),
                                   !.sinceSignal = IF releaseLockSignal > 0 THEN @ + 1 ELSE @,
                                   !.failed = IF out.exitError /\ out.stderr # OutputOf("No chain/target/match by that name")
                                              THEN @ \cup {chain} ELSE @]
             /\ Goto(Reconcile, IF rec.k = Len(rec.chains) \/ deleteFailed(r)
                                THEN "reconcile_unlock" ELSE "cleanupChains_select")
    /\ UNCHANGED << Iptables, markers, PlaceAzureChainFirst, releaseLockSignal, lockHolder,
                    pos, boot, calls, lastResult, running, sequential, ipRules, nodeSetup,
                    detected >>

\* cleanupChains, the default case: delete chains[k]
CleanupChainsDestroy ==
    /\ pc[Reconcile] = "cleanupChains_destroy"
    /\ \E fault \in FaultChoices :
         LET b == Iptables
             chain == rec.chains[rec.k]
             out == DestroyChainCommand(b, fault, forward[b], tables[b], chain)
             r == runIPTablesCommand(out)
         IN  /\ Spend(fault)
             /\ Kernel(Reconcile, b, "destroy-chain", chain, out)
             /\ chainsToCleanup' =
                    IF deleteFailed(r) THEN add(chainsToCleanup, chain) ELSE chainsToCleanup
             /\ rec' = [rec EXCEPT !.k = @ + 1,
                                   !.aggregateError = (@ \/ deleteFailed(r)),
                                   !.sinceSignal = IF releaseLockSignal > 0 THEN @ + 1 ELSE @,
                                   !.failed = IF out.exitError /\ out.stderr # OutputOf("No chain/target/match by that name")
                                              THEN @ \cup {chain} ELSE @]
    /\ Goto(Reconcile, IF rec.k = Len(rec.chains) THEN "reconcile_unlock" ELSE "cleanupChains_select")
    /\ UNCHANGED << Iptables, markers, PlaceAzureChainFirst, releaseLockSignal, lockHolder,
                    pos, boot, calls, lastResult, running, sequential, ipRules, nodeSetup,
                    detected >>

\* the deferred pMgr.reconcileManager.Unlock(); the tick is over
ReconcileUnlock ==
    /\ pc[Reconcile] = "reconcile_unlock"
    /\ lockHolder' = "none"
    /\ rec' = [RecIdle EXCEPT !.interrupted = rec.interrupted, !.owed = rec.owed]
    /\ Goto(Reconcile, "idle")
    /\ UNCHANGED << Iptables, markers, PlaceAzureChainFirst, forward, tables, chainsToCleanup,
                    releaseLockSignal, pos, boot, calls, lastResult, running, sequential,
                    ipRules, nodeSetup,
                    faults, detected, lastCommand, disturbed >>

(***************************************************************************)
(* A forced caller that marks a chain stale (a policy chain superseded).   *)
(***************************************************************************)
AdderStart ==
    /\ MayStart(Adder)
    /\ running
    /\ calls[Adder] < MaxAdds
    /\ calls' = [calls EXCEPT ![Adder] = @ + 1]
    /\ Goto(Adder, "forceLock_send")
    /\ UNCHANGED << Iptables, markers, PlaceAzureChainFirst, forward, tables, chainsToCleanup,
                    releaseLockSignal, lockHolder, pos, boot, rec, lastResult, running,
                    sequential, ipRules, nodeSetup, faults, detected, lastCommand, disturbed >>

\* pMgr.staleChains.add(chain); a caller that finds no chain to mark marks none
AdderAdd ==
    /\ pc[Adder] = "add"
    /\ \/ \E chain \in DOMAIN tables[detected] :
            /\ chainsToCleanup' = add(chainsToCleanup, chain)
            /\ rec' = [rec EXCEPT
                          !.interrupted = IF @ # {} /\ chain \notin BaseChains THEN @ \cup {chain} ELSE @,
                          !.owed = IF rec.interrupted # {} /\ chain \notin BaseChains
                                   THEN @ \cup {chain} ELSE @]
       \/ /\ DOMAIN tables[detected] = {}
          /\ UNCHANGED << chainsToCleanup, rec >>
    /\ Goto(Adder, "forceUnlock_drain")
    /\ UNCHANGED << Iptables, markers, PlaceAzureChainFirst, forward, tables,
                    releaseLockSignal, lockHolder, pos, boot, calls, lastResult, running,
                    sequential, ipRules, nodeSetup, faults, detected, lastCommand, disturbed >>

(***************************************************************************)
(* The specification.                                                      *)
(***************************************************************************)
\* the steps that can be taken when no command fails for a reason of the environment
NextNoFaults ==
    \/ BootupStart
    \/ DetectHint
    \/ DetectCanary
    \/ \E p \in ForcedProcs : ForceLockSend(p)
    \/ \E p \in ForcedProcs : ForceLockLock(p)
    \/ \E p \in ForcedProcs : ForceUnlockDrain(p)
    \/ \E p \in ForcedProcs : ForceUnlockUnlock(p)
    \/ CleanupDeleteDeprecated
    \/ CleanupDeleteJump
    \/ CleanupEnumerate
    \/ CleanupRestore
    \/ CleanupDestroy
    \/ BootupDeleteDeprecated
    \/ BootupEnumerate
    \/ BootupRestore
    \/ \E p \in PosProcs : PositionListAzure(p)
    \/ \E p \in PosProcs : PositionListKube(p)
    \/ \E p \in PosProcs : PositionDelete(p)
    \/ \E p \in PosProcs : PositionInsert(p)
    \/ ReconcileStart
    \/ ReconcileLock
    \/ ReconcileEmptyAndGetAll
    \/ CleanupChainsSelect
    \/ CleanupChainsDestroy
    \/ ReconcileUnlock
    \/ AdderStart
    \/ AdderAdd

\* with the fallback of cleanupOtherIptables, taken when its batch flush fails
Next ==
    \/ NextNoFaults
    \/ CleanupFlushAzure
    \/ CleanupFlushChain

\* the backend version detection chooses for the markers, when no probe is disturbed
Authoritative(m) == IF m[IptablesNft] # {} THEN IptablesNft ELSE IptablesLegacy

\* an initial state: the process has just been constructed; the kernel holds what
\* earlier runs and other programs left in the backend kube-proxy uses (forwardA,
\* chainsA) and in the other one (forwardO, chainsO)
InitWith(seq, markerSets, forwardA, forwardO, chainsA, chainsO, faultSet) ==
    /\ InitProcess
    /\ lastCommand = NoCommand
    /\ Iptables \in Backend
    /\ markers \in markerSets
    /\ PlaceAzureChainFirst \in {PlaceFirst, PlaceAfterKubeServices}
    /\ \E fa \in forwardA, fo \in forwardO :
         forward = [b \in Backend |-> IF b = Authoritative(markers) THEN fa ELSE fo]
    /\ \E ca \in chainsA, co \in chainsO :
         tables = [b \in Backend |-> OldTable(IF b = Authoritative(markers) THEN ca ELSE co)]
    /\ sequential = seq
    /\ faults \in faultSet

NftHint == [b \in Backend |-> IF b = IptablesNft THEN {"hint"} ELSE {}]
LegacyCanary == [b \in Backend |-> IF b = IptablesLegacy THEN {"canary"} ELSE {}]
NoMarker == [b \in Backend |-> {}]

\* the goroutines run concurrently; a configuration NPM itself left behind, or none
Init ==
    InitWith(FALSE, {NftHint, LegacyCanary, NoMarker},
             SeqsUpTo({jumpToKubeServices}, MaxForward - 1)
                 \cup {<< jumpFromForwardToAzureChain >>,
                       << jumpFromForwardToAzureChain, jumpToKubeServices >>},
             {<< jumpFromForwardToAzureChain >>},
             {BaseChains \cup PolicyChains},
             {{IptablesAzureChain, AllPolicyChains[1]}},
             0..MaxFaults)

\* calls are made one at a time, from whatever an earlier run or another program
\* left: any FORWARD chain over NPM's own chains, or any set of chains
InitSeq ==
    \/ InitWith(TRUE, {NftHint, LegacyCanary, NoMarker},
                SeqsUpTo(ForwardRules, MaxForward),
                {<< >>, << deprecatedJumpFromForwardToAzureChain, jumpFromForwardToAzureChain >>},
                {BaseChains \cup PolicyChains},
                {{}, {IptablesAzureChain, AllPolicyChains[1]}},
                0..MaxFaults)
    \/ InitWith(TRUE, {NftHint, LegacyCanary},
                {<< >>, << jumpToKubeServices, jumpFromForwardToAzureChain >>},
                {<< >>},
                { S \cup T : S \in SUBSET PolicyChains,
                             T \in {{}, {IptablesAzureChain}, BaseChains} },
                {{}, {IptablesAzureChain, AllPolicyChains[1]}},
                0..MaxFaults)

Spec == Init /\ [][Next]_vars

SpecSeq == InitSeq /\ [][Next]_vars

\* calls are made one at a time, with any of the marker chains listable in any backend
InitDetect ==
    InitWith(TRUE, [Backend -> SUBSET {"hint", "canary"}],
             {<< jumpFromForwardToAzureChain, jumpToKubeServices >>},
             {<< jumpFromForwardToAzureChain >>},
             {BaseChains \cup PolicyChains},
             {{IptablesAzureChain, AllPolicyChains[1]}},
             0..MaxFaults)

SpecDetect == InitDetect /\ [][Next]_vars

\* calls are made one at a time and several commands may fail; the other backend holds
\* what an earlier run left there: a jump or none, AZURE-NPM and a policy chain, a policy
\* chain alone, or nothing
InitCleanup ==
    InitWith(TRUE, {NftHint, LegacyCanary},
             {<< jumpFromForwardToAzureChain, jumpToKubeServices >>},
             {<< >>, << jumpFromForwardToAzureChain >>},
             {BaseChains \cup PolicyChains},
             {{}, {AllPolicyChains[1]}, {IptablesAzureChain, AllPolicyChains[1]}},
             0..MaxCleanupFaults)

SpecCleanup == InitCleanup /\ [][Next]_vars

\* one command is handed to ignoreErrorsAndRunIPTablesCommand: with the ignore table of
\* the jump deletes or none, ended with an exit status or not, having printed any pieces
\* of text of iptables and of the table
InitExecutor ==
    /\ InitProcess
    /\ Iptables = IptablesNft
    /\ markers = NoMarker
    /\ PlaceAzureChainFirst = PlaceFirst
    /\ forward = [b \in Backend |-> << >>]
    /\ tables = [b \in Backend |-> OldTable({})]
    /\ sequential = TRUE
    /\ faults = 0
    /\ \E ignored \in {{}, removeDeprecatedJumpIgnoredErrors},
          exitError \in BOOLEAN,
          code \in {doesNotExistErrorCode, couldntLoadTargetErrorCode} \cup UnexpectedExitCodes,
          output \in SeqsUpTo({"iptables: ", ".", "resource problem"}
                                 \cup { info.stdErr : info \in removeDeprecatedJumpIgnoredErrors },
                              MaxOutput) :
         lastCommand = [NoCommand EXCEPT !.run = [NoRun EXCEPT !.state = "pending",
                                                               !.ignored = ignored,
                                                               !.exitError = exitError,
                                                               !.code = IF exitError THEN code ELSE 0,
                                                               !.output = output]]

\* ignoreErrorsAndRunIPTablesCommand(ignored, ...) returns
Execute ==
    /\ lastCommand.run.state = "pending"
    /\ LET run == lastCommand.run
           r == ignoreErrorsAndRunIPTablesCommand(
                    run.ignored, Outcome(run.exitError, run.code, run.output, << >>, << >>))
       IN  lastCommand' = [lastCommand EXCEPT !.run = [run EXCEPT !.state = "done",
                                                                  !.returned = r.code,
                                                                  !.err = r.err,
                                                                  !.metric = r.metric]]
    /\ UNCHANGED << Iptables, markers, PlaceAzureChainFirst, forward, tables, chainsToCleanup,
                    releaseLockSignal, lockHolder, pc, pos, boot, rec, calls, lastResult,
                    running, sequential, ipRules, nodeSetup, faults, detected, disturbed >>

SpecExecutor == InitExecutor /\ [][Execute]_vars

(***************************************************************************)
(* Node setup: NodeConfiguration.Run and the ip rules of the host.         *)
(***************************************************************************)
wireserverRulePriority == 0

RT_TABLE_MAIN == 254

Nil == [ip |-> "", ones |-> 0]

\* the texts that are an IPv4 address, among those the configuration may hold
IPv4Texts == {"168.63.129.16", "10.0.0.1"}

\* net.ParseCIDR(ip + "/32"): the network of the one address, or an error
ParseCIDR32(ip) ==
    IF ip \in IPv4Texts
    THEN [err |-> FALSE, net |-> [ip |-> ip, ones |-> 32]]
    ELSE [err |-> TRUE, net |-> Nil]

\* (*net.IPNet).String(): address, slash, prefix length
NetString(n) == << n.ip, "/", n.ones >>

ipRulesForDst(ip, priority) ==
    LET parsed == ParseCIDR32(ip)
    IN  IF parsed.err
        THEN [err |-> TRUE, rules |-> << >>]
        ELSE [err |-> FALSE,
              rules |-> << [Dst |-> parsed.net, Table |-> RT_TABLE_MAIN, Priority |-> priority] >>]

ruleExistsNever(rule, existing) == FALSE

\* the loop of ensureIPRule: a listed rule has the same destination, table and priority
ruleExists(rule, existing) ==
    \E i \in DOMAIN existing :
        LET r == existing[i]
        IN  /\ r.Dst # Nil
            /\ rule.Dst # Nil
            /\ NetString(r.Dst) = NetString(rule.Dst)
            /\ r.Table = rule.Table
            /\ r.Priority = rule.Priority

\* ensureIPRule(rule, existing) on a host whose rules are host: the error, the rules of
\* the host afterwards and the number of rules added
ensureIPRule(rule, existing, host, addFails) ==
    IF ruleExists(rule, existing)
    THEN [err |-> "none", host |-> host, added |-> 0]
    ELSE IF addFails
         THEN [err |-> "add", host |-> host, added |-> 0]
         ELSE [err |-> "none", host |-> Append(host, rule), added |-> 1]

\* the loop of Run over rules[i..], stopped by the first error
RECURSIVE ensureEach(_, _, _, _, _, _)
ensureEach(rules, i, existing, host, addFails, added) ==
    IF i > Len(rules)
    THEN [err |-> "none", host |-> host, added |-> added, existing |-> existing]
    ELSE LET r == ensureIPRule(rules[i], existing, host, addFails)
         IN  IF r.err # "none"
             THEN [err |-> r.err, host |-> r.host, added |-> added + r.added, existing |-> existing]
             ELSE ensureEach(rules, i + 1, existing, r.host, addFails, added + r.added)

\* Run on a host whose rules are host; listing and adding fail as the environment chooses
Run(wireserverIP, host, listFails, addFails) ==
    LET built == ipRulesForDst(wireserverIP, wireserverRulePriority)
    IN  IF built.err
        THEN [err |-> "parse", host |-> host, added |-> 0, existing |-> << >>]
        ELSE IF Len(built.rules) = 0
        THEN [err |-> "none", host |-> host, added |-> 0, existing |-> << >>]
        ELSE IF listFails
        THEN [err |-> "list", host |-> host, added |-> 0, existing |-> << >>]
        ELSE ensureEach(built.rules, 1, host, host, addFails, 0)

\* a host with any ip rules, Run not yet called, configured with an address or another text
InitNodeSetup ==
    /\ InitGoroutines
    /\ Iptables = IptablesNft
    /\ markers = NoMarker
    /\ PlaceAzureChainFirst = PlaceFirst
    /\ forward = [b \in Backend |-> << >>]
    /\ tables = [b \in Backend |-> OldTable({})]
    /\ sequential = TRUE
    /\ faults = 0
    /\ lastCommand = NoCommand
    /\ ipRules \in SeqsUpTo([ Dst : {Nil, [ip |-> "168.63.129.16", ones |-> 32],
                                        [ip |-> "168.63.129.0", ones |-> 24],
                                        [ip |-> "10.0.0.1", ones |-> 32]},
                                 Table : {RT_TABLE_MAIN, 255},
                                 Priority : {wireserverRulePriority, 32766} ],
                               MaxIPRules)
    /\ \E ip \in IPv4Texts \cup {"wireserver"} :
         nodeSetup = [NodeIdle EXCEPT !.wireserverIP = ip]

\* nc.Run() returns
NodeRun ==
    /\ nodeSetup.runs < MaxRuns
    /\ \E listFails, addFails \in BOOLEAN :
         LET r == Run(nodeSetup.wireserverIP, ipRules, listFails, addFails)
         IN  /\ ipRules' = r.host
             /\ nodeSetup' = [nodeSetup EXCEPT !.runs = @ + 1,
                                               !.err = r.err,
                                               !.added = r.added,
                                               !.addedTotal = @ + r.added,
                                               !.existing = r.existing]
    /\ UNCHANGED << Iptables, markers, PlaceAzureChainFirst, forward, tables, chainsToCleanup,
                    releaseLockSignal, lockHolder, pc, pos, boot, rec, calls, lastResult,
                    running, sequential, faults, detected, lastCommand, disturbed >>

SpecNodeSetup == InitNodeSetup /\ [][NodeRun]_vars

\* the goroutines run concurrently and every command runs as iptables defines it
InitNoFaults == Init /\ faults = 0

SpecNoFaults == InitNoFaults /\ [][NextNoFaults]_vars

(***************************************************************************)
(* Properties.                                                             *)
(***************************************************************************)
IsJumpToAzureChain(rule) == rule.target = IptablesAzureChain

JumpsToAzureChain(fwd) == Cardinality({ i \in DOMAIN fwd : IsJumpToAzureChain(fwd[i]) })

\* the line the placement policy dictates for the jump in a FORWARD chain
PolicyLine(fwd) ==
    IF /\ PlaceAzureChainFirst = PlaceAfterKubeServices
       /\ \E i \in DOMAIN fwd : fwd[i] = jumpToKubeServices
    THEN FirstIndex(fwd, jumpToKubeServices) + 1
    ELSE 1

\* exactly one jump to AZURE-NPM, on the line of the policy
OneJumpAtPolicyLine(fwd) ==
    /\ JumpsToAzureChain(fwd) = 1
    /\ \E i \in DOMAIN fwd : IsJumpToAzureChain(fwd[i]) /\ i = PolicyLine(fwd)

\* bootup is about to return nil (its deferred forceUnlock is all that is left)
BootupSucceeded == pc[Bootup] = "forceUnlock_drain" /\ ~boot.err

\* the positioner of the reconcile tick has returned nil
ReconcilePositioned == pc[Reconcile] = "reconcile_lock" /\ lastResult[Reconcile] = "ok"

\* C1: after a bootup call that returns success, and after a reconcile tick
\* whose positioner succeeds, no other writer having changed a FORWARD chain
\* during the call, the FORWARD chain of the detected backend holds exactly one
\* jump to AZURE-NPM, on the line the placement policy dictates.
EntrypointInvariant ==
    /\ (BootupSucceeded /\ Bootup \notin disturbed) => OneJumpAtPolicyLine(forward[detected])
    /\ (ReconcilePositioned /\ Reconcile \notin disturbed)
          => OneJumpAtPolicyLine(forward[detected])

\* bootup and the reconcile tick have both returned, without error
BothFinished ==
    /\ pc[Bootup] = "idle" /\ lastResult[Bootup] = "ok"
    /\ pc[Reconcile] = "idle" /\ lastResult[Reconcile] = "ok"

\* C2: bootup and reconcile are safe to call concurrently: once a bootup call and
\* a reconcile tick have both finished without error, FORWARD holds exactly one
\* jump to AZURE-NPM on the policy line, and two positioner runs that overlap
\* never both insert a jump.
ConcurrentCallsSafe ==
    /\ BothFinished => OneJumpAtPolicyLine(forward[detected])
    /\ ~(pos[Bootup].inserted /\ pos[Reconcile].inserted /\ disturbed # {})

\* C3: the backend mode is never written while another goroutine builds a
\* command: every command of a reconcile tick (listing, jump delete, jump insert,
\* stale-chain delete) runs against the detected backend, also while a bootup call
\* runs concurrently.
ReconcileUsesDetectedBackend ==
    lastCommand.proc = Reconcile => lastCommand.backend = detected

\* a forced caller completes: its forceUnlock releases the lock
Completes(p) == pc[p] = "forceUnlock_unlock" /\ pc'[p] = "idle"

StaleAccess(p) ==
    IF p = Bootup THEN {"bootup_restore"}
    ELSE IF p = Reconcile
    THEN {"reconcile_emptyAndGetAll", "cleanupChains_select", "cleanupChains_destroy"}
    ELSE {"add"}

\* C5: the stale set never holds a base chain, no list emptyAndGetAll returned holds
\* one, and add of a base chain leaves the set as it is
NoBaseChainLoss ==
    /\ chainsToCleanup \cap BaseChains = {}
    /\ Range(rec.chains) \cap BaseChains = {}
    /\ \A chain \in BaseChains : add(chainsToCleanup, chain) = chainsToCleanup

\* a drain pass holds the list emptyAndGetAll returned, from a stale set that a bootup
\* built from an enumeration with all the base chains in it
StaleListReturned ==
    /\ pc[Reconcile] = "cleanupChains_select"
    /\ Len(rec.chains) = MaxPolicyChains
    /\ BaseChains \subseteq DOMAIN tables[detected]

IsBaseChainDelete(command) == command.op = "destroy-chain" /\ command.chain \in BaseChains

\* C6: no chain-delete command is ever issued for a base chain
NoBaseChainDeleted == ~IsBaseChainDelete(lastCommand)

\* C6 as amended: a chain-delete command for a base chain is issued only by bootup's
\* cleanup of the other backend (never by a drain pass, never against the backend
\* that was detected)
BaseChainDeletedOnlyInOtherBackend ==
    IsBaseChainDelete(lastCommand) =>
        /\ lastCommand.proc = Bootup
        /\ lastCommand.backend # detected
        /\ pc[Bootup] \in {"cleanup_destroy", "bootup_deleteDeprecated"}

\* bootup's cleanup has deleted a base chain of the backend that was not detected
BaseChainDeletedInOtherBackend ==
    /\ IsBaseChainDelete(lastCommand)
    /\ lastCommand.proc = Bootup
    /\ lastCommand.backend # detected
    /\ lastCommand.chain \notin DOMAIN tables[lastCommand.backend]

BootupCritical ==
    pc[Bootup] \notin {"idle", "detect_hint", "detect_canary", "forceLock_send", "forceLock_lock"}

ReconcileDrain ==
    pc[Reconcile] \in {"reconcile_emptyAndGetAll", "cleanupChains_select",
                       "cleanupChains_destroy", "reconcile_unlock"}

\* C7: a goroutine about to read or change the stale set holds the lock, and the
\* critical section of bootup never overlaps the drain section of reconcile
StaleSetMutualExclusion ==
    /\ \A p \in Procs : pc[p] \in StaleAccess(p) => lockHolder = p
    /\ ~(BootupCritical /\ ReconcileDrain)
    /\ BootupCritical => lockHolder = Bootup
    /\ ReconcileDrain => lockHolder = Reconcile

\* bootup waits for the lock, its signal sent, while a drain pass holds it
BootupWaitsForDrain ==
    /\ pc[Bootup] = "forceLock_lock"
    /\ pc[Reconcile] = "cleanupChains_destroy"
    /\ lockHolder = Reconcile

PayloadApplied == pc[Bootup] = "position_listAzure"

NoJumpToAzureChain(fwd) == JumpsToAzureChain(fwd) = 0

Positioned(p) == IF p = Bootup THEN BootupSucceeded ELSE ReconcilePositioned

BootstrapPayloadResult ==
    PayloadApplied =>
        LET tbl == tables[Iptables]
        IN  /\ BaseChains \subseteq DOMAIN tbl
            /\ tbl[IptablesAzureIngressChain] = << ingressDropSpecs >>
            /\ tbl[IptablesAzureIngressAllowMarkChain] = << markIngressAllowSpecs, jumpToEgressSpecs >>
            /\ tbl[IptablesAzureEgressChain] = << egressDropSpecs, jumpOnIngressMatchSpecs >>
            /\ tbl[IptablesAzureAcceptChain] = << acceptSpecs >>
            /\ tbl[IptablesAzureChain] = << >>
            /\ \A chain \in boot.currentChains \ BaseChains : tbl[chain] = << >>

\* the payload was applied where some base chains were missing and a policy chain was there
PayloadAppliedOnPartialChains ==
    /\ PayloadApplied
    /\ boot.currentChains \cap PolicyChains # {}
    /\ BaseChains \ boot.currentChains # {}
    /\ boot.currentChains \cap BaseChains # {}

\* C10: once creatorForBootup has run on the enumerated chains C the stale set is
\* C without the base chains, whatever it held before
StaleMarkingAtBootstrap ==
    [][ (pc[Bootup] = "bootup_restore" /\ pc'[Bootup] # "bootup_restore")
            => chainsToCleanup' = boot.currentChains \ BaseChains ]_vars

\* creatorForBootup has run on {A, B, base chains}: the stale set is {A, B}
StaleMarkedAtBootstrap ==
    /\ PayloadApplied
    /\ boot.currentChains = PolicyChains \cup BaseChains
    /\ chainsToCleanup = PolicyChains

\* the second of two bootup calls made in a row: the first one succeeded, no tick and
\* no forced caller has run, and no command has failed
SecondCallInRow ==
    /\ calls[Bootup] = 2
    /\ pc[Bootup] # "idle"
    /\ lastResult[Bootup] = "ok"
    /\ calls[Reconcile] = 0
    /\ calls[Adder] = 0
    /\ faults = MaxFaults

\* C11: a second bootup call in a row changes nothing: every command it issues leaves
\* the chains and rules of both backends, FORWARD and the stale set as the first left them
BootupIdempotent ==
    [][ (SecondCallInRow /\ faults' = faults)
            => /\ forward' = forward
               /\ tables' = tables
               /\ chainsToCleanup' = chainsToCleanup ]_vars

\* the positioner of p is running
PositionerIn(p) ==
    pc[p] \in {"position_listAzure", "position_listKube", "position_delete", "position_insert"}

\* the rules of a FORWARD chain other than the jumps to AZURE-NPM, in their order
OtherRules(fwd) == SelectSeq(fwd, LAMBDA rule : ~IsJumpToAzureChain(rule))

\* C12: for every FORWARD listing whose first line naming AZURE-NPM (line a, 0 = absent)
\* is the jump rule, with the KUBE-SERVICES jump at line k (0 = absent), and either
\* placement policy, when no command fails a positioner that returns nil leaves the jump
\* at line 1 (policy "first", or no KUBE-SERVICES jump) or right after the KUBE-SERVICES
\* jump, with the other rules in their order; the insert index is k when the deleted
\* jump was before the KUBE-SERVICES jump and k + 1 when the jump was absent
PositionerResult ==
    [][ \A p \in PosProcs :
          LET listing == IF pc[p] = "position_listAzure"
                         THEN forward[Iptables] ELSE pos[p].listing
              a == chainLineNumber(listing, IptablesAzureChain)
              k == chainLineNumber(listing, IptablesKubeServicesChain)
              after == forward'[Iptables]
              afterKube == PlaceAzureChainFirst = PlaceAfterKubeServices /\ k > 0
          IN  ( /\ PositionerIn(p)
                /\ Positioned(p)'
                /\ faults' = MaxFaults
                /\ (a = 0 \/ listing[a] = jumpFromForwardToAzureChain) )
              => /\ PolicyLine(after) \in DOMAIN after
                 /\ after[PolicyLine(after)] = jumpFromForwardToAzureChain
                 /\ OtherRules(after) = OtherRules(listing)
                 /\ (pc[p] = "position_insert" /\ afterKube /\ a # 0 /\ a < k)
                       => pos[p].target = k
                 /\ (pc[p] = "position_insert" /\ afterKube /\ a = 0)
                       => pos[p].target = k + 1 ]_vars

\* bootup has returned nil from a positioner that deleted the jump at line 1, before the
\* KUBE-SERVICES jump at line 2, and inserted it again at index 2
JumpMovedAfterKubeServices ==
    /\ BootupSucceeded
    /\ faults = MaxFaults
    /\ PlaceAzureChainFirst = PlaceAfterKubeServices
    /\ pos[Bootup].azureChainLineNum = 1
    /\ pos[Bootup].inserted
    /\ forward[Iptables] = << jumpToKubeServices, jumpFromForwardToAzureChain >>

\* C13: whenever the first line naming AZURE-NPM of the FORWARD listing the positioner
\* reads is at the line of the policy, the positioner issues no delete and no insert and
\* leaves the chains and FORWARD of both backends unchanged, and it returns nil unless
\* one of its listings fails
PositionerNoOp ==
    [][ \A p \in PosProcs :
          LET listing == IF pc[p] = "position_listAzure"
                         THEN forward[Iptables] ELSE pos[p].listing
          IN
          ( /\ PositionerIn(p)
            /\ chainLineNumber(listing, IptablesAzureChain) = PolicyLine(listing) )
          => /\ forward' = forward
             /\ tables' = tables
             /\ pc'[p] \notin {"position_delete", "position_insert"}
             /\ (~PositionerIn(p)' /\ faults' = faults) => Positioned(p)' ]_vars

\* the positioner of a reconcile tick has returned nil without inserting: it found the
\* jump at line 2, right after the KUBE-SERVICES jump
JumpFoundAfterKubeServices ==
    /\ ReconcilePositioned
    /\ PlaceAzureChainFirst = PlaceAfterKubeServices
    /\ pos[Reconcile].azureChainLineNum = 2
    /\ ~pos[Reconcile].inserted
    /\ forward[Iptables] = << jumpToKubeServices, jumpFromForwardToAzureChain >>

\* C14: when the delete of a misplaced jump by the positioner reports that the rule does
\* not exist (the exit code and stderr of the ignorable "does not exist" class), the
\* positioner takes the delete for a success and goes on to insert the jump
PositionerDeleteNotFoundIgnored ==
    [][ \A p \in PosProcs :
          LET out == DeleteRuleCommand(Iptables, "none", forward[Iptables], tables[Iptables],
                                       jumpFromForwardToAzureChain)
          IN  ( /\ pc[p] = "position_delete"
                /\ pc'[p] # "position_delete"
                /\ faults' = faults
                /\ out.exitError
                /\ out.code = doesNotExistErrorCode
                /\ out.stderr = NoRuleStderr(Iptables) )
              => pc'[p] = "position_insert" ]_vars

DetectionResult ==
    [][ (pc[Bootup] \in {"detect_hint", "detect_canary"} /\ pc'[Bootup] # pc[Bootup])
        => LET found == lastCommand'.result # "exit"
               ended == pc'[Bootup] \notin {"detect_hint", "detect_canary"}
           IN  /\ lastCommand'.op = "list"
               /\ lastCommand'.backend = boot.probe
               /\ lastCommand'.chain = IF pc[Bootup] = "detect_hint"
                                       THEN "KUBE-IPTABLES-HINT" ELSE "KUBE-KUBELET-CANARY"
               /\ found => /\ pc'[Bootup] = "forceLock_send"
                           /\ Iptables' = boot.probe
               /\ (~found /\ pc[Bootup] = "detect_hint")
                     => pc'[Bootup] = "detect_canary" /\ boot'.probe = boot.probe
               /\ (~found /\ pc[Bootup] = "detect_canary" /\ boot.probe = IptablesNft)
                     => pc'[Bootup] = "detect_hint" /\ boot'.probe = IptablesLegacy
               /\ (~found /\ pc[Bootup] = "detect_canary" /\ boot.probe = IptablesLegacy)
                     => pc'[Bootup] = "idle" /\ lastResult'[Bootup] = "error"
               /\ (boot.probe = IptablesLegacy /\ faults' = MaxFaults)
                     => markers[IptablesNft] = {}
               /\ (ended /\ faults' = MaxFaults)
                     => IF markers[IptablesNft] # {}
                        THEN pc'[Bootup] = "forceLock_send" /\ Iptables' = IptablesNft
                        ELSE IF markers[IptablesLegacy] # {}
                        THEN pc'[Bootup] = "forceLock_send" /\ Iptables' = IptablesLegacy
                        ELSE pc'[Bootup] = "idle" /\ lastResult'[Bootup] = "error" ]_vars

\* detection has set the mode to legacy: the canary chain was found under legacy after
\* the three probes before it failed
LegacyDetectedByCanary ==
    /\ pc[Bootup] = "forceLock_send"
    /\ markers = LegacyCanary
    /\ faults = MaxFaults
    /\ Iptables = IptablesLegacy
    /\ lastCommand.chain = "KUBE-KUBELET-CANARY"
    /\ lastCommand.backend = IptablesLegacy
    /\ lastCommand.result = "ok"

\* C18: for a command that exits with the non-zero code c and the output o,
\* ignoreErrorsAndRunIPTablesCommand returns (c, nil) exactly when some descriptor of the
\* ignore table has the exit code c and a text that o contains; otherwise it returns
\* (c, non-nil error) and sends the error metric; a command that does not exit with an
\* error yields (0, nil)
ErrorClassification ==
    LET run == lastCommand.run
    IN  run.state = "done"
        => IF run.exitError
           THEN /\ run.returned = run.code
                /\ ~run.err <=> \E info \in run.ignored :
                                    /\ info.exitCode = run.code
                                    /\ \E i \in DOMAIN run.output : run.output[i] = info.stdErr
                /\ run.metric <=> run.err
           ELSE run.returned = 0 /\ ~run.err /\ ~run.metric

\* the call has returned an error for a command whose exit code is that of a descriptor
\* of the table and whose output holds the text of another descriptor only
CodeMatchedAlone ==
    LET run == lastCommand.run
    IN  /\ run.state = "done"
        /\ run.err
        /\ run.code = doesNotExistErrorCode
        /\ run.output = << "iptables: ", "Chain 'AZURE-NPM' does not exist" >>
        /\ run.ignored = removeDeprecatedJumpIgnoredErrors

\* C19: when the delete of a stale chain in a reconcile drain exits with the "does not
\* exist" code, the chain is not put back into the stale set and the failure is not part
\* of the error of the drain; and a chain the drain has left out of the stale set stays
\* out of it until the tick is over
AbsentChainCleanedUp ==
    [][ /\ LET chain == rec.chains[rec.k]
               out == DestroyChainCommand(Iptables, "none", forward[Iptables],
                                          tables[Iptables], chain)
           IN  ( /\ pc[Reconcile] = "cleanupChains_destroy"
                 /\ pc'[Reconcile] # pc[Reconcile]
                 /\ faults' = faults
                 /\ out.exitError
                 /\ out.code = doesNotExistErrorCode )
               => /\ chain \notin chainsToCleanup'
                  /\ rec'.aggregateError = rec.aggregateError
        /\ pc[Reconcile] \in {"cleanupChains_select", "cleanupChains_destroy", "reconcile_unlock"}
             => \A j \in 1..(rec.k - 1) :
                    (j \in DOMAIN rec.chains /\ rec.chains[j] \notin chainsToCleanup)
                        => rec.chains[j] \notin chainsToCleanup' ]_vars

\* the drain has gone through its chains without an error although the delete of the
\* last one exited with an error: the chain was not there, and it is not stale any more
DrainFoundChainAbsent ==
    /\ pc[Reconcile] = "reconcile_unlock"
    /\ rec.k > Len(rec.chains)
    /\ ~rec.aggregateError
    /\ lastCommand.proc = Reconcile
    /\ lastCommand.op = "destroy-chain"
    /\ lastCommand.result = "exit"
    /\ lastCommand.chain \notin DOMAIN tables[lastCommand.backend]
    /\ lastCommand.chain \notin chainsToCleanup

\* C20: every chain of a drain pass whose delete failed for another reason than the chain
\* being absent already is in the stale set again, and a chain of the pass is left out
\* of the stale set only when it was deleted or was absent already
NoStaleChainLeaked ==
    [][ (pc[Reconcile] = "cleanupChains_destroy" /\ pc'[Reconcile] # pc[Reconcile])
        => LET chain == rec.chains[rec.k]
           IN  /\ (lastCommand'.result = "exit" /\ chain \in DOMAIN tables[Iptables])
                     => chain \in chainsToCleanup'
               /\ chain \notin chainsToCleanup' => chain \notin DOMAIN tables'[Iptables] ]_vars

\* C21: every reconcile tick starts with the positioner; the positioner runs without the
\* reconcileManager lock and can take its next step whoever holds the lock; and when it
\* returns, with an error or without, the tick goes on to take the lock and to empty the
\* stale set: a tick ends only by the unlock that follows the drain
PositionerFirstAndUnlocked ==
    [][ /\ (pc[Reconcile] = "idle" /\ pc'[Reconcile] # "idle")
              => pc'[Reconcile] = "position_listAzure"
        /\ PositionerIn(Reconcile)
              => /\ lockHolder # Reconcile
                 /\ ENABLED ( \/ PositionListAzure(Reconcile) \/ PositionListKube(Reconcile)
                              \/ PositionDelete(Reconcile) \/ PositionInsert(Reconcile) )
        /\ (PositionerIn(Reconcile) /\ ~PositionerIn(Reconcile)')
              => /\ pc'[Reconcile] = "reconcile_lock"
                 /\ lastResult'[Reconcile] \in {"ok", "error"}
        /\ (pc[Reconcile] = "reconcile_lock" /\ pc'[Reconcile] # pc[Reconcile])
              => /\ pc'[Reconcile] = "reconcile_emptyAndGetAll"
                 /\ lockHolder' = Reconcile
        /\ (pc[Reconcile] = "reconcile_emptyAndGetAll" /\ pc'[Reconcile] # pc[Reconcile])
              => /\ chainsToCleanup' = {}
                 /\ Range(rec'.chains) = chainsToCleanup
        /\ (pc[Reconcile] # "idle" /\ pc'[Reconcile] = "idle")
              => pc[Reconcile] = "reconcile_unlock" ]_vars

\* the positioner of a tick has returned an error while a bootup call holds the lock
PositionerFailedUnderBootupLock ==
    /\ pc[Reconcile] = "reconcile_lock"
    /\ lastResult[Reconcile] = "error"
    /\ lockHolder = Bootup

\* C22: whatever the outcome of the delete of a stale chain, the drain pass goes on: the
\* delete issued is that of the chain reached, the next chain is reached after it, and
\* with no signal pending its delete is issued; a pass that was not told to stop ends
\* only when a delete was issued for every chain of it, and the tick then returns
\* releasing the lock
DrainGoesOnAfterFailure ==
    [][ /\ (pc[Reconcile] = "cleanupChains_destroy" /\ pc'[Reconcile] # pc[Reconcile])
              => /\ lastCommand'.proc = Reconcile
                 /\ lastCommand'.op = "destroy-chain"
                 /\ lastCommand'.chain = rec.chains[rec.k]
                 /\ rec'.k = rec.k + 1
                 /\ rec'.chains = rec.chains
                 /\ pc'[Reconcile] = IF rec.k < Len(rec.chains)
                                     THEN "cleanupChains_select" ELSE "reconcile_unlock"
        /\ (pc[Reconcile] = "cleanupChains_select" /\ pc'[Reconcile] # pc[Reconcile]
               /\ releaseLockSignal = 0)
              => /\ pc'[Reconcile] = "cleanupChains_destroy"
                 /\ rec' = rec
        /\ (pc[Reconcile] = "reconcile_unlock" /\ pc'[Reconcile] # pc[Reconcile])
              => /\ rec.interrupted = {} => rec.k > Len(rec.chains)
                 /\ pc'[Reconcile] = "idle"
                 /\ lockHolder' = "none" ]_vars

\* a drain pass of two chains is over with an error: the delete of the first chain
\* failed and put it back, and the delete of the second was issued and carried out
DrainFinishedAfterFailure ==
    /\ pc[Reconcile] = "reconcile_unlock"
    /\ rec.aggregateError
    /\ rec.interrupted = {}
    /\ Len(rec.chains) = 2
    /\ rec.k = 3
    /\ rec.chains[1] \in chainsToCleanup
    /\ lastCommand.proc = Reconcile
    /\ lastCommand.op = "destroy-chain"
    /\ lastCommand.chain = rec.chains[2]
    /\ lastCommand.result = "ok"

\* the forced callers whose forceLock has sent its signal and whose forceUnlock has not
\* yet looked for one
SignalOwed ==
    { p \in ForcedProcs :
        pc[p] \notin {"idle", "detect_hint", "detect_canary", "forceLock_send",
                      "forceUnlock_unlock"} }

\* C23: the channel never holds more signals than there are forced callers between the
\* send of forceLock and the select of forceUnlock: it is empty once a forced caller has
\* run the select of its forceUnlock while no other caller waits in forceLock, and when no
\* forced call is under way; and a signal that a drain pass can find was sent by a
\* forceLock that still waits for the lock
NoStraySignal ==
    /\ releaseLockSignal <= Cardinality(SignalOwed)
    /\ \A p \in ForcedProcs :
         (pc[p] = "forceUnlock_unlock" /\ \A q \in ForcedProcs : pc[q] # "forceLock_lock")
            => releaseLockSignal = 0
    /\ (\A p \in ForcedProcs : pc[p] \in {"idle", "detect_hint", "detect_canary"})
          => releaseLockSignal = 0
    /\ (pc[Reconcile] \in {"cleanupChains_select", "cleanupChains_destroy"}
           /\ releaseLockSignal > 0)
          => \E p \in ForcedProcs : pc[p] = "forceLock_lock"

\* a drain pass that started after a bootup call (whose forceLock found no drain in
\* progress) had returned has gone through its chains without being told to stop
DrainAfterForcedCallNotInterrupted ==
    /\ pc[Reconcile] = "reconcile_unlock"
    /\ Len(rec.chains) > 0
    /\ rec.k > Len(rec.chains)
    /\ rec.interrupted = {}
    /\ calls[Bootup] = 1
    /\ pc[Bootup] = "idle"
    /\ calls[Adder] = 0
    /\ releaseLockSignal = 0

\* C24: the drain pass takes the signal only in the select before a chain's delete, and
\* no step of a delete touches the channel; having taken the signal the pass issues no
\* command any more and releases the lock; and the pass issues at most one delete
\* command while a signal is pending (the delete chosen before the signal was sent)
DrainStopsAtChainBoundary ==
    [][ /\ (releaseLockSignal' < releaseLockSignal /\ lockHolder = Reconcile)
              => /\ pc[Reconcile] = "cleanupChains_select"
                 /\ pc'[Reconcile] = "reconcile_unlock"
        /\ (pc[Reconcile] = "cleanupChains_select" /\ pc'[Reconcile] # pc[Reconcile]
               /\ releaseLockSignal > 0)
              => /\ pc'[Reconcile] = "reconcile_unlock"
                 /\ releaseLockSignal' = releaseLockSignal - 1
                 /\ lastCommand' = lastCommand
                 /\ tables' = tables
        /\ (pc[Reconcile] = "cleanupChains_destroy" /\ pc'[Reconcile] # pc[Reconcile])
              => releaseLockSignal' = releaseLockSignal
        /\ (pc[Reconcile] = "reconcile_unlock" /\ pc'[Reconcile] # pc[Reconcile])
              => /\ lockHolder' = "none"
                 /\ lastCommand' = lastCommand
                 /\ tables' = tables
        /\ rec.sinceSignal <= 1
        /\ rec'.sinceSignal <= 1 ]_vars

\* a drain pass has stopped before its second chain: bootup's forceLock sent its signal
\* when the delete of the first chain was chosen already, that delete was issued, and
\* the select after it took the signal
DrainStoppedAfterChosenDelete ==
    /\ pc[Reconcile] = "reconcile_unlock"
    /\ rec.sinceSignal = 1
    /\ rec.k = 2
    /\ rec.interrupted = {rec.chains[2]}
    /\ rec.chains[2] \in chainsToCleanup
    /\ lastCommand.proc = Reconcile
    /\ lastCommand.op = "destroy-chain"
    /\ lastCommand.chain = rec.chains[1]
    /\ pc[Bootup] = "forceLock_lock"
    /\ releaseLockSignal = 0

\* the goroutines run concurrently and are scheduled fairly: a goroutine inside a call
\* takes its next step when it can go on for good (a command ends, the mutex or room in
\* the channel stays free until it is taken); whether a call is made at all is left open
SpecLive ==
    /\ InitWith(FALSE, {NftHint}, {<< jumpFromForwardToAzureChain, jumpToKubeServices >>},
                {<< jumpFromForwardToAzureChain >>}, {BaseChains \cup PolicyChains},
                {{IptablesAzureChain, AllPolicyChains[1]}}, 0..MaxFaults)
    /\ [][Next]_vars
    /\ WF_vars( \/ DetectHint \/ DetectCanary
                \/ ForceLockSend(Bootup) \/ ForceLockLock(Bootup)
                \/ CleanupDeleteDeprecated \/ CleanupDeleteJump \/ CleanupEnumerate
                \/ CleanupRestore \/ CleanupFlushAzure \/ CleanupFlushChain \/ CleanupDestroy
                \/ BootupDeleteDeprecated \/ BootupEnumerate \/ BootupRestore
                \/ PositionListAzure(Bootup) \/ PositionListKube(Bootup)
                \/ PositionDelete(Bootup) \/ PositionInsert(Bootup)
                \/ ForceUnlockDrain(Bootup) \/ ForceUnlockUnlock(Bootup) )
    /\ WF_vars( \/ PositionListAzure(Reconcile) \/ PositionListKube(Reconcile)
                \/ PositionDelete(Reconcile) \/ PositionInsert(Reconcile)
                \/ ReconcileLock \/ ReconcileEmptyAndGetAll
                \/ CleanupChainsSelect \/ CleanupChainsDestroy \/ ReconcileUnlock )
    /\ WF_vars( \/ ForceLockSend(Adder) \/ ForceLockLock(Adder) \/ AdderAdd
                \/ ForceUnlockDrain(Adder) \/ ForceUnlockUnlock(Adder) )

\* C25: every forceLock call returns holding the lock: a forced caller that is about to
\* send its signal gets to hold the reconcileManager lock, whoever holds the lock and
\* whatever the channel holds when it calls
ForceLockReturns ==
    \A p \in ForcedProcs : (pc[p] = "forceLock_send") ~> (lockHolder = p)

\* a forced caller holds the lock after its forceLock contended with a bootup call,
\* which cannot send its signal yet (the channel is full), and with a reconcile tick
\* that waits for the lock
ForceLockReturnedUnderContention ==
    /\ lockHolder = Adder
    /\ pc[Adder] = "add"
    /\ pc[Bootup] = "forceLock_send"
    /\ releaseLockSignal = ChannelCapacity
    /\ pc[Reconcile] = "reconcile_lock"

BatchFailureFallsBack ==
    [][ (pc[Bootup] \in {"cleanup_restore", "bootup_restore"}
            /\ pc'[Bootup] # pc[Bootup]
            /\ lastCommand'.op = "restore"
            /\ lastCommand'.result = "exit")
        => pc'[Bootup] \in {"cleanup_flushAzure", "cleanup_flushChain"} ]_vars

\* C27 as amended: whenever the restore of the cleanup file of the other backend fails
\* during bootup, the next thing bootup does is a one-by-one pass that flushes the
\* enumerated chains one command each, AZURE-NPM first; when the restore of the bootstrap
\* file of the authoritative backend fails, bootup returns an error at once, with no
\* one-by-one pass
CleanupBatchFailureFallsBack ==
    [][ /\ (pc[Bootup] = "cleanup_restore" /\ pc'[Bootup] # pc[Bootup]
               /\ lastCommand'.result = "exit")
              => pc'[Bootup] = IF IptablesAzureChain \in boot.currentChains
                               THEN "cleanup_flushAzure" ELSE "cleanup_flushChain"
        /\ (pc[Bootup] = "cleanup_flushAzure" /\ pc'[Bootup] # pc[Bootup])
              => /\ lastCommand'.op = "flush-chain"
                 /\ lastCommand'.chain = IptablesAzureChain
                 /\ pc'[Bootup] \in {"cleanup_flushChain", "cleanup_destroy", "forceUnlock_drain"}
                 /\ pc'[Bootup] = "cleanup_flushChain"
                       => boot'.toFlush = boot.currentChains \ {IptablesAzureChain}
        /\ (pc[Bootup] = "cleanup_flushChain" /\ pc'[Bootup] # pc[Bootup])
              => pc'[Bootup] = "cleanup_destroy"
        /\ (pc[Bootup] = "cleanup_flushChain" /\ boot'.toFlush # boot.toFlush)
              => /\ lastCommand'.op = "flush-chain"
                 /\ lastCommand'.chain \in boot.toFlush
                 /\ boot'.toFlush = boot.toFlush \ {lastCommand'.chain}
                 /\ pc'[Bootup] = "cleanup_destroy" <=> boot'.toFlush = {}
        /\ (pc[Bootup] = "bootup_restore" /\ pc'[Bootup] # pc[Bootup]
               /\ lastCommand'.result = "exit")
              => /\ pc'[Bootup] = "forceUnlock_drain"
                 /\ boot'.err ]_vars

\* the cleanup has flushed AZURE-NPM and the policy chain of the other backend one by
\* one after its batch flush failed, and goes on to delete the chains
CleanupFellBack ==
    /\ pc[Bootup] = "cleanup_destroy"
    /\ boot.currentChains = {IptablesAzureChain, AllPolicyChains[1]}
    /\ boot.toDestroy = boot.currentChains
    /\ lastCommand.proc = Bootup
    /\ lastCommand.op = "flush-chain"
    /\ lastCommand.chain = AllPolicyChains[1]
    /\ lastCommand.result = "ok"
    /\ \A chain \in boot.currentChains : tables[Iptables][chain] = << >>

\* C28: when the enumeration of the other backend finds no chain, cleanupOtherIptables
\* returns nil at once: bootup goes on to its own first step, no restore, flush or chain
\* delete having been issued for the other backend; and a reconcile tick that finds the
\* stale set empty goes straight to its unlock and returns, issuing no command
NothingToTouchIsNoOp ==
    [][ /\ (pc[Bootup] = "cleanup_enumerate" /\ pc'[Bootup] # pc[Bootup]
               /\ lastCommand'.result = "ok" /\ DOMAIN tables[Iptables] = {})
              => /\ pc'[Bootup] = "bootup_deleteDeprecated"
                 /\ ~boot'.err
                 /\ tables' = tables
                 /\ forward' = forward
        /\ (pc[Bootup] = "bootup_deleteDeprecated" /\ pc'[Bootup] # pc[Bootup])
              => lastCommand'.backend = Restored(boot.hadNFT)
        /\ (pc[Reconcile] = "reconcile_emptyAndGetAll" /\ pc'[Reconcile] # pc[Reconcile]
               /\ chainsToCleanup = {})
              => /\ pc'[Reconcile] = "reconcile_unlock"
                 /\ rec'.chains = << >>
                 /\ lastCommand' = lastCommand
                 /\ tables' = tables
        /\ (pc[Reconcile] = "reconcile_unlock" /\ pc'[Reconcile] # pc[Reconcile])
              => /\ pc'[Reconcile] = "idle"
                 /\ lastCommand' = lastCommand
                 /\ tables' = tables ]_vars

\* a tick is about to return without having deleted a chain: the bootup before it found
\* no chain in the other backend and only base chains in its own, and no command failed
TickFoundNothingStale ==
    /\ pc[Reconcile] = "reconcile_unlock"
    /\ rec.chains = << >>
    /\ calls[Bootup] = 1
    /\ faults = MaxFaults
    /\ lastCommand.proc = Reconcile
    /\ lastCommand.op # "destroy-chain"
    /\ DOMAIN tables[OtherBackend(detected)] = {}
    /\ DOMAIN tables[detected] = BaseChains

\* C29: the list emptyAndGetAll returns holds every chain of the stale set exactly once and
\* nothing else, the stale set is empty afterwards, and emptyAndGetAll of the set it leaves
\* can return the empty list only
EmptyAndGetAllDrainsTheSet ==
    [][ (pc[Reconcile] = "reconcile_emptyAndGetAll" /\ pc'[Reconcile] # pc[Reconcile])
          => LET result == rec'.chains
             IN  /\ { result[i] : i \in DOMAIN result } = chainsToCleanup
                 /\ Len(result) = Cardinality(chainsToCleanup)
                 /\ \A i, j \in DOMAIN result : i # j => result[i] # result[j]
                 /\ chainsToCleanup' = {}
                 /\ emptyAndGetAll(chainsToCleanup') = { << >> } ]_vars

\* a tick has just taken two or more chains out of the stale set
StaleSetJustEmptied ==
    /\ pc[Reconcile] = "cleanupChains_select"
    /\ rec.k = 1
    /\ rec.interrupted = {}
    /\ Len(rec.chains) >= 2
    /\ chainsToCleanup = {}

\* the step of bootup a label belongs to: 1 detect, 2 forceLock, 3 cleanupOtherIptables,
\* 4 delete the deprecated jump, 5 enumerate, 6 creatorForBootup and restore,
\* 7 positionAzureChainJumpRule, 8 the deferred forceUnlock (bootup returns)
BootupStepOf(label) ==
    CASE label \in {"detect_hint", "detect_canary"} -> 1
      [] label \in {"forceLock_send", "forceLock_lock"} -> 2
      [] label \in {"cleanup_deleteDeprecated", "cleanup_deleteJump", "cleanup_enumerate",
                    "cleanup_restore", "cleanup_flushAzure", "cleanup_flushChain",
                    "cleanup_destroy"} -> 3
      [] label = "bootup_deleteDeprecated" -> 4
      [] label = "bootup_enumerate" -> 5
      [] label = "bootup_restore" -> 6
      [] label \in {"position_listAzure", "position_listKube", "position_delete",
                    "position_insert"} -> 7
      [] label \in {"forceUnlock_drain", "forceUnlock_unlock"} -> 8
      [] OTHER -> 0

\* C30: a bootup call goes through detect, forceLock, the cleanup of the other backend,
\* the delete of the deprecated jump, the enumeration, the bootstrap restore and the
\* positioner in this order, leaving the order only to return; the positioner is entered
\* only from a bootstrap restore that succeeded, a jump to AZURE-NPM is inserted by bootup
\* only with the base chains of the payload in place, and a failed enumeration or restore
\* of the bootstrap makes bootup return an error from that step
BootupStepOrder ==
    [][ LET from == BootupStepOf(pc[Bootup])
            to == BootupStepOf(pc'[Bootup])
        IN  (pc'[Bootup] # pc[Bootup]) =>
              /\ (from = 0) => (to = 1)
              /\ (from = 1) => (to \in {1, 2} \/ (to = 0 /\ lastResult'[Bootup] = "error"))
              /\ (from \in 2..6) => (to \in {from, from + 1} \/ (to = 8 /\ boot'.err))
              /\ (from = 7) => (to \in {7, 8})
              /\ (from = 8) => (to \in {8, 0})
              /\ (to = 7 /\ from # 7)
                    => /\ pc[Bootup] = "bootup_restore"
                       /\ lastCommand'.op = "restore"
                       /\ lastCommand'.result = "ok"
                       /\ BaseChains \subseteq DOMAIN tables'[Iptables]
                       /\ ~boot'.err
              /\ (pc[Bootup] \in {"bootup_enumerate", "bootup_restore"}
                    /\ lastCommand'.result # "ok")
                    => /\ pc'[Bootup] = "forceUnlock_drain"
                       /\ boot'.err
                       /\ forward' = forward
              /\ (pc[Bootup] = "position_insert" /\ forward' # forward)
                    => BaseChains \subseteq DOMAIN tables[Iptables] ]_vars

\* a bootup call has gone through every step and its positioner has inserted the jump
BootupWentThroughEveryStep ==
    /\ pc[Bootup] = "forceUnlock_drain"
    /\ ~boot.err
    /\ pos[Bootup].inserted
    /\ lastCommand.proc = Bootup
    /\ lastCommand.op = "insert-rule"
    /\ boot.currentChains # {}

\* C31: Run adds the rule to wireserverIP/32 in the main table with priority 0 only when
\* the host lists no rule with that destination, table and priority, and then adds that
\* rule and nothing else; when such a rule is listed Run adds nothing and returns nil;
\* when listing fails Run returns the error and adds nothing; calls of Run following one
\* another add the rule once at most
NodeSetupIdempotent ==
    [][ (nodeSetup'.runs # nodeSetup.runs) =>
          LET rule == [Dst |-> [ip |-> nodeSetup.wireserverIP, ones |-> 32],
                       Table |-> RT_TABLE_MAIN, Priority |-> wireserverRulePriority]
              listed == \E i \in DOMAIN ipRules : ipRules[i] = rule
          IN  /\ (ipRules' # ipRules) => /\ ~listed
                                         /\ ipRules' = Append(ipRules, rule)
                                         /\ nodeSetup'.added = 1
                                         /\ nodeSetup'.err = "none"
              /\ (ipRules' = ipRules) => nodeSetup'.added = 0
              /\ listed => /\ ipRules' = ipRules
                           /\ nodeSetup'.err \in {"none", "list"}
              /\ (listed /\ nodeSetup'.existing = ipRules) => nodeSetup'.err = "none"
              /\ (nodeSetup'.err = "list") => ipRules' = ipRules
              /\ nodeSetup'.addedTotal <= 1 ]_vars

\* Run has been called twice on a host with another rule: the first call added the rule,
\* the second found it listed and added nothing
NodeSetupRanTwice ==
    /\ nodeSetup.runs = 2
    /\ nodeSetup.addedTotal = 1
    /\ nodeSetup.added = 0
    /\ nodeSetup.err = "none"
    /\ nodeSetup.existing = ipRules
    /\ Len(ipRules) = 2

\* C32: cleanupOtherIptables returns an error only from the flush of AZURE-NPM that failed
\* when no jump rule had been deleted; no other step of the cleanup makes it return one
CleanupErrorOnlyAtDoubleFailure ==
    [][ (BootupStepOf(pc[Bootup]) = 3 /\ pc'[Bootup] = "forceUnlock_drain")
          => /\ pc[Bootup] = "cleanup_flushAzure"
             /\ ~boot.deletedJumpRule
             /\ lastCommand'.result # "ok" ]_vars

\* C33: when a drain pass over rec.chains has taken the signal before processing
\* rec.chains[rec.k], then while reconcile is about to release the lock the stale set
\* holds every chain rec.chains[k..n], and holds a chain rec.chains[j] with j < k only if
\* its delete in this pass exited with an error other than the chain being absent
RequeueOnInterruption ==
    (pc[Reconcile] = "reconcile_unlock" /\ rec.k <= Len(rec.chains))
        => /\ \A j \in rec.k..Len(rec.chains) : rec.chains[j] \in chainsToCleanup
           /\ \A j \in 1..(rec.k - 1) :
                  rec.chains[j] \in chainsToCleanup => rec.chains[j] \in rec.failed

\* a pass of two chains was stopped before its second chain, the delete of the first having
\* failed: the stale set holds both
DrainInterruptedAfterFailure ==
    /\ pc[Reconcile] = "reconcile_unlock"
    /\ Len(rec.chains) = 2
    /\ rec.k = 2
    /\ rec.failed = {rec.chains[1]}
    /\ chainsToCleanup = {rec.chains[1], rec.chains[2]}
\* the ticker of the reconcile loop fires again (the count of ticks stays at its bound)
ReconcileStartAgain ==
    /\ MayStart(Reconcile)
    /\ running
    /\ calls[Reconcile] = MaxTicks
    /\ disturbed' = disturbed \ {Reconcile}
    /\ lastResult' = [lastResult EXCEPT ![Reconcile] = "none"]
    /\ pos' = [pos EXCEPT ![Reconcile] = PosIdle]
    /\ Goto(Reconcile, "position_listAzure")
    /\ UNCHANGED << Iptables, markers, PlaceAzureChainFirst, forward, tables, chainsToCleanup,
                    releaseLockSignal, lockHolder, boot, rec, calls, running, sequential,
                    ipRules, nodeSetup, faults, detected, lastCommand >>

\* the goroutines run concurrently, scheduled fairly inside their calls, and the reconcile
\* loop goes on ticking; whether and when a tick or another call is made is left open
SpecDrain ==
    /\ InitWith(FALSE, {NftHint}, {<< jumpFromForwardToAzureChain, jumpToKubeServices >>},
                {<< jumpFromForwardToAzureChain >>}, {BaseChains \cup PolicyChains},
                {{IptablesAzureChain, AllPolicyChains[1]}}, 0..MaxFaults)
    /\ [][Next \/ ReconcileStartAgain]_vars
    /\ WF_vars( \/ DetectHint \/ DetectCanary
                \/ ForceLockSend(Bootup) \/ ForceLockLock(Bootup)
                \/ CleanupDeleteDeprecated \/ CleanupDeleteJump \/ CleanupEnumerate
                \/ CleanupRestore \/ CleanupFlushAzure \/ CleanupFlushChain \/ CleanupDestroy
                \/ BootupDeleteDeprecated \/ BootupEnumerate \/ BootupRestore
                \/ PositionListAzure(Bootup) \/ PositionListKube(Bootup)
                \/ PositionDelete(Bootup) \/ PositionInsert(Bootup)
                \/ ForceUnlockDrain(Bootup) \/ ForceUnlockUnlock(Bootup) )
    /\ WF_vars( \/ PositionListAzure(Reconcile) \/ PositionListKube(Reconcile)
                \/ PositionDelete(Reconcile) \/ PositionInsert(Reconcile)
                \/ ReconcileLock \/ ReconcileEmptyAndGetAll
                \/ CleanupChainsSelect \/ CleanupChainsDestroy \/ ReconcileUnlock )
    /\ WF_vars( \/ ForceLockSend(Adder) \/ ForceLockLock(Adder) \/ AdderAdd
                \/ ForceUnlockDrain(Adder) \/ ForceUnlockUnlock(Adder) )

\* C34: when ticks keep occurring, while no call forces the lock after the first bootup
\* and no chain is marked stale by another caller, the stale set becomes empty and stays
\* empty, and a chain whose delete exited with an error other than the chain being absent
\* is handed to a delete command again by a later tick
DrainLiveness ==
    ( /\ [](calls[Bootup] <= 1 /\ calls[Adder] = 0)
      /\ []<>(pc[Reconcile] = "reconcile_emptyAndGetAll") )
        => /\ <>[](chainsToCleanup = {})
           /\ \A c \in PolicyChains :
                  [] ( (pc[Reconcile] = "reconcile_unlock" /\ c \in rec.failed)
                         => <>(pc[Reconcile] = "cleanupChains_destroy" /\ rec.chains[rec.k] = c) )

\* C35: bootup holds the lock from forceLock to its deferred forceUnlock, which every
\* return after forceLock goes through once (drain, then unlock) and which frees the lock;
\* reconcile holds the lock from Lock to its deferred Unlock, which every return of the
\* tick goes through and which frees the lock; a goroutine that is in no call holds no lock
LockNeverLeaked ==
    [][ /\ (pc'[Bootup] # pc[Bootup]) =>
              /\ (BootupStepOf(pc[Bootup]) \in 3..7)
                    => /\ lockHolder = Bootup
                       /\ lockHolder' = Bootup
                       /\ BootupStepOf(pc'[Bootup]) \in 3..8
              /\ (BootupStepOf(pc'[Bootup]) = 8 /\ BootupStepOf(pc[Bootup]) # 8)
                    => pc'[Bootup] = "forceUnlock_drain"
              /\ (pc[Bootup] = "forceUnlock_drain")
                    => /\ pc'[Bootup] = "forceUnlock_unlock"
                       /\ lockHolder' = Bootup
              /\ (pc[Bootup] = "forceUnlock_unlock")
                    => /\ pc'[Bootup] = "idle"
                       /\ lockHolder = Bootup
                       /\ lockHolder' = "none"
              /\ (pc'[Bootup] = "idle")
                    => pc[Bootup] \in {"forceUnlock_unlock", "detect_canary"}
        /\ (pc'[Reconcile] # pc[Reconcile]) =>
              /\ (pc[Reconcile] \in {"reconcile_emptyAndGetAll", "cleanupChains_select",
                                     "cleanupChains_destroy"})
                    => /\ lockHolder = Reconcile
                       /\ lockHolder' = Reconcile
                       /\ pc'[Reconcile] \in {"cleanupChains_select", "cleanupChains_destroy",
                                              "reconcile_unlock"}
              /\ (pc[Reconcile] = "reconcile_unlock")
                    => /\ pc'[Reconcile] = "idle"
                       /\ lockHolder = Reconcile
                       /\ lockHolder' = "none"
              /\ (pc'[Reconcile] = "idle") => pc[Reconcile] = "reconcile_unlock"
        /\ \A p \in {Bootup, Reconcile} : (pc'[p] = "idle") => (lockHolder' # p) ]_vars

\* a bootup call has returned the error of its enumeration and the lock is free
BootupReturnedErrorUnlocked ==
    /\ pc[Bootup] = "idle"
    /\ lastResult[Bootup] = "error"
    /\ lockHolder = "none"
    /\ lastCommand.proc = Bootup
    /\ lastCommand.op = "enumerate"
    /\ lastCommand.authoritative
    /\ lastCommand.result = "exit"

\* C36: a probe of hintOrCanaryChainExist that returns false leaves util.Iptables at the
\* value it had before the probe, and one that returns true is followed by the caller's
\* setting it to the probed backend; inside cleanupOtherIptables util.Iptables is the other
\* backend, and on every return of cleanupOtherIptables, with or without an error, it is
\* the detected backend again, so that every command bootup issues afterwards is built
\* for the detected backend
BackendModeRestored ==
    [][ (pc'[Bootup] # pc[Bootup] \/ boot' # boot) =>
          /\ (pc[Bootup] = "detect_canary" /\ pc'[Bootup] # "forceLock_send")
                => Iptables' = boot.iptablesAtCall
          /\ (BootupStepOf(pc[Bootup]) = 1 /\ pc'[Bootup] = "forceLock_send")
                => /\ Iptables' = boot.probe
                   /\ detected' = boot.probe
          /\ (BootupStepOf(pc[Bootup]) = 2) => (Iptables' = detected /\ detected' = detected)
          /\ (BootupStepOf(pc[Bootup]) = 3 /\ BootupStepOf(pc'[Bootup]) = 3)
                => /\ Iptables' = OtherBackend(detected)
                   /\ detected' = detected
          /\ (BootupStepOf(pc[Bootup]) = 3 /\ lastCommand' # lastCommand
                 /\ lastCommand'.proc = Bootup)
                => lastCommand'.backend = OtherBackend(detected)
          /\ (BootupStepOf(pc[Bootup]) = 3 /\ BootupStepOf(pc'[Bootup]) # 3)
                => Iptables' = detected
          /\ (BootupStepOf(pc[Bootup]) \in 4..7)
                => /\ Iptables = detected
                   /\ Iptables' = detected
                   /\ (lastCommand' # lastCommand => lastCommand'.backend = detected) ]_vars

\* cleanupOtherIptables has returned the error of its enumeration, which was run in the
\* other backend, and util.Iptables is the detected backend
CleanupReturnedErrorRestored ==
    /\ pc[Bootup] = "forceUnlock_drain"
    /\ boot.err
    /\ lastCommand.proc = Bootup
    /\ lastCommand.op = "enumerate"
    /\ lastCommand.backend = OtherBackend(detected)
    /\ Iptables = detected

\* C37: a command that could not be started (an error that is no exit error) is returned
\* as (0, nil), and its caller goes on as after a success: a version probe takes its chain
\* for found, cleanupChains does not put the chain back, and the positioner returns nil
\* from its insert, although no command ran
NotStartedTakenForSuccess ==
    [][ (lastCommand'.result = "nostart") =>
          /\ (pc[Bootup] \in {"detect_hint", "detect_canary"} /\ pc'[Bootup] # pc[Bootup])
                => /\ pc'[Bootup] = "forceLock_send"
                   /\ detected' = boot.probe
          /\ (pc[Reconcile] = "cleanupChains_destroy" /\ pc'[Reconcile] # pc[Reconcile])
                => /\ chainsToCleanup' = chainsToCleanup
                   /\ rec'.aggregateError = rec.aggregateError
                   /\ tables' = tables
          /\ \A p \in PosProcs :
                (pc[p] = "position_insert" /\ pc'[p] # pc[p])
                   => /\ forward' = forward
                      /\ (p = Bootup) => (pc'[p] = "forceUnlock_drain" /\ ~boot'.err)
                      /\ (p = Reconcile) => (pc'[p] = "reconcile_lock"
                                               /\ lastResult'[p] = "ok") ]_vars

\* the delete of a stale chain could not be started: the chain is still in the kernel and
\* is not in the stale set, the pass having taken its delete for done
DeleteNotStartedChainLeft ==
    /\ pc[Reconcile] \in {"cleanupChains_select", "reconcile_unlock"}
    /\ lastCommand.proc = Reconcile
    /\ lastCommand.op = "destroy-chain"
    /\ lastCommand.result = "nostart"
    /\ lastCommand.chain \in DOMAIN tables[lastCommand.backend]
    /\ lastCommand.chain \notin chainsToCleanup
    /\ ~rec.aggregateError

\* C38: in cleanupOtherIptables both jump deletes are attempted, whatever the first
\* returns, before the enumeration and any flush; the chains are flushed (by the restore,
\* or, when it failed, one by one with AZURE-NPM first) before any chain is deleted; a
\* delete is then issued for every enumerated chain, AZURE-NPM first; and a flush or delete
\* that fails, the fatal flush of AZURE-NPM apart, is followed by the remaining chains
CleanupOrder ==
    [][ (BootupStepOf(pc[Bootup]) = 3 /\ (pc'[Bootup] # pc[Bootup] \/ boot' # boot)) =>
          LET at == pc[Bootup]
              to == pc'[Bootup]
              failed == lastCommand'.result # "ok"
          IN  /\ (at = "cleanup_deleteDeprecated")
                    => (to = "cleanup_deleteJump" /\ lastCommand'.op = "delete-rule")
              /\ (at = "cleanup_deleteJump")
                    => (to = "cleanup_enumerate" /\ lastCommand'.op = "delete-rule")
              /\ (at = "cleanup_enumerate" /\ to \notin {"forceUnlock_drain", "bootup_deleteDeprecated"})
                    => (to = "cleanup_restore" /\ boot'.currentChains = DOMAIN tables[Iptables])
              /\ (at = "cleanup_restore")
                    => /\ lastCommand'.op = "restore"
                       /\ to = IF ~failed THEN "cleanup_destroy"
                               ELSE IF IptablesAzureChain \in boot.currentChains
                               THEN "cleanup_flushAzure" ELSE "cleanup_flushChain"
                       /\ (to = "cleanup_flushChain") => boot'.toFlush = boot.currentChains
              /\ (at = "cleanup_flushAzure")
                    => /\ lastCommand'.op = "flush-chain"
                       /\ lastCommand'.chain = IptablesAzureChain
                       /\ (to = "forceUnlock_drain") => (failed /\ ~boot.deletedJumpRule)
                       /\ (to # "forceUnlock_drain")
                             => /\ boot'.toFlush = boot.currentChains \ {IptablesAzureChain}
                                /\ to = IF boot'.toFlush = {} THEN "cleanup_destroy"
                                        ELSE "cleanup_flushChain"
              /\ (at = "cleanup_flushChain")
                    => /\ lastCommand'.op = "flush-chain"
                       /\ lastCommand'.chain \in boot.toFlush
                       /\ boot'.toFlush = boot.toFlush \ {lastCommand'.chain}
                       /\ to = IF boot'.toFlush = {} THEN "cleanup_destroy"
                               ELSE "cleanup_flushChain"
              /\ (at # "cleanup_destroy" /\ to = "cleanup_destroy")
                    => (boot'.toDestroy = boot.currentChains /\ boot.currentChains # {})
              /\ (at = "cleanup_destroy")
                    => /\ lastCommand'.op = "destroy-chain"
                       /\ lastCommand'.chain \in boot.toDestroy
                       /\ (IptablesAzureChain \in boot.toDestroy)
                             => lastCommand'.chain = IptablesAzureChain
                       /\ boot'.toDestroy = boot.toDestroy \ {lastCommand'.chain}
                       /\ to = IF boot'.toDestroy = {} THEN "bootup_deleteDeprecated"
                               ELSE "cleanup_destroy"
                       /\ ~boot'.err ]_vars

\* the delete of AZURE-NPM, issued first, has failed, and the cleanup is about to delete
\* the other enumerated chains
CleanupGoesOnAfterFailedDelete ==
    /\ pc[Bootup] = "cleanup_destroy"
    /\ lastCommand.proc = Bootup
    /\ lastCommand.op = "destroy-chain"
    /\ lastCommand.chain = IptablesAzureChain
    /\ lastCommand.result = "exit"
    /\ boot.toDestroy = boot.currentChains \ {IptablesAzureChain}
    /\ boot.toDestroy # {}

============================================================================
